---- MODULE Spec2Model ----
(***************************************************************************)
(* A state-machine model of fortress-js: the fToken entry points (supply,  *)
(* redeem, borrow, repayBorrow), the FAI/claim entry points of comp.ts,    *)
(* getPrice, createDelegateSignature and the constructor's network         *)
(* detection, driven against an external chain capability (eth.read /      *)
(* eth.trx) and an external signer.  Spec runs one call of any operation;  *)
(* PriceSpec runs two getPrice calls against one chain state;              *)
(* DelegationSpec runs createDelegateSignature calls of one signer;        *)
(* ChecksumSpec applies toChecksumAddress to a string and to its result;   *)
(* DecimalsSpec constructs a second instance in the same process;          *)
(* ConcurrentSpec interleaves two supply / repayBorrow calls of one owner; *)
(* ReuseSpec makes two calls in a row with one options object.             *)
(*                                                                         *)
(* Numbers.  TLC integers are 32 bit, token mantissas are not, so a        *)
(* numeric value is kept as a record [m, e] standing for m * 10^e with m a *)
(* small integer without trailing zeros (Canon).  A value is an integer    *)
(* exactly when e >= 0.  The numeric inputs of the model are chosen among  *)
(* the values a binary double holds exactly, and for which the product by  *)
(* 10^decimals is exact as well, so that amount * Math.pow(10, d) is the   *)
(* real product.                                                           *)
(*                                                                         *)
(* Symbols.  An asset symbol is a sequence of atoms, "f" being the letter  *)
(* f: <<"f", "DAI">> is the string fDAI, << >> the empty string.           *)
(***************************************************************************)
EXTENDS Integers, Sequences, FiniteSets

VARIABLES
    networkPromise, \* instance._networkPromise: "pending", "rejected" or "deleted"
    network,        \* instance._network: "unset" or the detected network's name
    decimals,       \* the process-wide decimals table of constants.ts
    options,        \* the options object the caller holds and passes to calls
    allowance,      \* chain state: allowance(user, fToken) of each underlying
    chain,          \* chain state: the oracle's prices, the fTokens' exchange rates,
                    \* the signer's delegation nonce
    pc,             \* per call: the await the call is suspended at
    args,           \* per call: the arguments it was called with
    amount,         \* per call: the local `amount` once it is a BigNumber
    trxOptions,     \* per call: the local copy { ...options } it passes on
    trace,          \* per call: the eth.read / eth.trx invocations it has made
    result,         \* per call: how the returned promise settled
    otherInstance,  \* a second instance created in the same process, if any
    checksum        \* toChecksumAddress applied to a string, then to its result

vars == <<networkPromise, network, decimals, options, allowance, chain,
          pc, args, amount, trxOptions, trace, result, otherInstance, checksum>>

-----------------------------------------------------------------------------
(* Bounds of the model *)

\* largest power of ten among the amounts a caller passes as a number
MaxInputExp == 21

\* largest power of ten among the allowances the chain starts with
MaxAllowanceExp == 21

\* significant decimal digits a JavaScript number keeps in the price
\* arithmetic of getPrice (a double keeps 53 bits)
FloatDigits == 3

\* largest delegation nonce the chain reaches
MaxNonce == 2

\* number of hexadecimal digits after which a modelled digest repeats
DigestPeriod == 2

-----------------------------------------------------------------------------
(* Numeric values m * 10^e *)

RECURSIVE Pow10(_)
Pow10(n) == IF n <= 0 THEN 1 ELSE 10 * Pow10(n - 1)

RECURSIVE Canon(_, _)
Canon(m, e) ==
    IF m = 0 THEN [m |-> 0, e |-> 0]
    ELSE IF m % 10 = 0 THEN Canon(m \div 10, e + 1)
    ELSE [m |-> m, e |-> e]

Abs(x) == IF x < 0 THEN 0 - x ELSE x

\* number of decimal digits of |m|, for 0 < |m| < 10000
NumDigits(m) ==
    IF Abs(m) < 10 THEN 1
    ELSE IF Abs(m) < 100 THEN 2
    ELSE IF Abs(m) < 1000 THEN 3
    ELSE 4

Zero == [m |-> 0, e |-> 0]

IsInteger(v) == v.e >= 0

\* a < b for canonical values with |m| < 10000
ValLt(a, b) ==
    LET d == a.e - b.e IN
    IF d >= 0
    THEN IF d > 4
         THEN IF a.m = 0 THEN 0 < b.m ELSE a.m < 0
         ELSE a.m * Pow10(d) < b.m
    ELSE IF 0 - d > 4
         THEN IF b.m = 0 THEN a.m < 0 ELSE 0 < b.m
         ELSE a.m < b.m * Pow10(0 - d)

-----------------------------------------------------------------------------
(* The arithmetic of getPrice.  A BigNumber is an exact integer m * 10^e,  *)
(* e >= 0.  A JavaScript number is a value m * 10^e with at most           *)
(* FloatDigits digits in m: every operation rounds its exact result to the *)
(* nearest such value, ties to even, as IEEE 754 does with 53 bits.        *)
(* Values are non-negative.                                                *)

\* number of decimal digits of n > 0
RECURSIVE DigitsOf(_)
DigitsOf(n) == IF n < 10 THEN 1 ELSE 1 + DigitsOf(n \div 10)

\* n / p rounded to the nearest integer, ties to even; sticky tells that n
\* stands for a value slightly above n
RoundDiv(n, p, sticky) ==
    LET q == n \div p
        r == n % p
    IN  IF 2 * r > p \/ (2 * r = p /\ (sticky \/ q % 2 = 1)) THEN q + 1 ELSE q

\* the number nearest to n * 10^e (n >= 0)
RoundTo(n, e, sticky) ==
    IF n = 0 THEN Zero
    ELSE LET k == DigitsOf(n) - FloatDigits
         IN  IF k <= 0 THEN Canon(n, e)
             ELSE Canon(RoundDiv(n, Pow10(k), sticky), e + k)

\* the result of 0 / 0 or x / 0
NotANumber == [m |-> 0, e |-> 0 - 999]

\* Number(bigNumber.toString()): what `/` makes of a BigNumber operand
ToFloat(v) == RoundTo(v.m, v.e, FALSE)

\* a * b on numbers
FloatMul(a, b) ==
    IF a = NotANumber \/ b = NotANumber THEN NotANumber
    ELSE RoundTo(a.m * b.m, a.e + b.e, FALSE)

\* a / b on numbers
FloatDiv(a, b) ==
    IF a = NotANumber \/ b = NotANumber \/ b.m = 0 THEN NotANumber
    ELSE IF a.m = 0 THEN Zero
    ELSE LET s == FloatDigits + DigitsOf(b.m) - DigitsOf(a.m) + 1
             n == a.m * Pow10(s)
         IN  RoundTo(n \div b.m, a.e - b.e - s, n % b.m # 0)

\* BigNumber.mul(BigNumber.from("10").pow(k))
BigMulPow10(v, k) == Canon(v.m, v.e + k)

\* BigNumber.div(BigNumber.from("10").pow(k)): the integer quotient
BigDivPow10(v, k) ==
    IF v.e >= k THEN Canon(v.m, v.e - k)
    ELSE IF k - v.e > 9 THEN Zero
    ELSE Canon(v.m \div Pow10(k - v.e), 0)

-----------------------------------------------------------------------------
(* Amount arguments: string | number | BigNumber | anything else           *)
(*   type "number":    form "finite" (m * 10^e), "NaN"                     *)
(*   type "string":    form "int"   digits, optional leading minus         *)
(*                          "dec"   digits with a decimal point            *)
(*                          "exp"   exponent notation, as in 1e+21         *)
(*                          "hex"   0x...                                  *)
(*                          "empty" the empty string                       *)
(*                          "junk"  anything else, as in abc or NaN        *)
(*   type "BigNumber": form "int"                                          *)
(*   type "other":     undefined, null, a boolean, a plain object          *)

Num(m, e)    == [type |-> "number", form |-> "finite", m |-> Canon(m, e).m, e |-> Canon(m, e).e]
NaN          == [type |-> "number", form |-> "NaN", m |-> 0, e |-> 0]
Str(f, m, e) == [type |-> "string", form |-> f, m |-> Canon(m, e).m, e |-> Canon(m, e).e]
Big(m, e)    == [type |-> "BigNumber", form |-> "int", m |-> Canon(m, e).m, e |-> Canon(m, e).e]
Other        == [type |-> "other", form |-> "none", m |-> 0, e |-> 0]

ValueOf(a) == [m |-> a.m, e |-> a.e]

\* `+amount`: the unary plus of supply line 75 (ToNumber)
ToNumber(a) ==
    CASE a.type = "number" -> a
      [] a.type = "string" ->
            IF a.form \in {"int", "dec", "exp", "hex"} THEN Num(a.m, a.e)
            ELSE IF a.form = "empty" THEN Num(0, 0)
            ELSE NaN
      [] a.type = "BigNumber" -> Num(a.m, a.e)   \* Number(amount.toString())
      [] OTHER -> NaN

\* `amount * Math.pow(10, d)`; d < 0 stands for decimals[asset] === undefined
TimesPow10(a, d) ==
    IF a.form = "NaN" \/ d < 0 THEN NaN ELSE Num(a.m, a.e + d)

\* Number.prototype.toString(): digits only when the value is an integer
\* below 10^21, a decimal point or exponent notation otherwise
NumberToString(a) ==
    IF a.form = "NaN" THEN Str("junk", 0, 0)
    ELSE IF a.m = 0 THEN Str("int", 0, 0)
    ELSE LET k == NumDigits(a.m)
             n == k + a.e
         IN  IF k <= n /\ n <= 21 THEN Str("int", a.m, a.e)
             ELSE IF 0 - 6 < n /\ n <= 21 THEN Str("dec", a.m, a.e)
             ELSE Str("exp", a.m, a.e)

\* amount.toString() of supply line 79
AmountToString(a) ==
    CASE a.type = "number" -> NumberToString(a)
      [] a.type = "string" -> a
      [] a.type = "BigNumber" -> Str("int", a.m, a.e)
      [] OTHER -> Str("junk", 0, 0)

\* mutant of BigNumberFromOk: a conversion that accepts any string
BigNumberFromOk_lenient(s) == TRUE

\* ethers.BigNumber.from(string): /^-?[0-9]+$/ or /^-?0x[0-9a-f]+$/i, else it throws
BigNumberFromOk(s) == s.form \in {"int", "hex"}
BigNumberFrom(s)   == [m |-> s.m, e |-> s.e]

\* typeof amount === 'number' || typeof amount === 'string' || isBigNumber(amount)
AmountTypeOk(a) == a.type \in {"number", "string", "BigNumber"}

\* lines 74-79 of supply, the same in redeem, borrow, repayBorrow, mintFAI, repayFAI
Scaled(a, mantissa, d) == IF ~mantissa THEN TimesPow10(ToNumber(a), d) ELSE a

NormalizeOk(a, mantissa, d) == BigNumberFromOk(AmountToString(Scaled(a, mantissa, d)))
Normalize(a, mantissa, d)   == BigNumberFrom(AmountToString(Scaled(a, mantissa, d)))

-----------------------------------------------------------------------------
(* The static tables of constants.ts *)

fBNB == <<"f", "BNB">>

underlyings == {<<"DAI">>, <<"BNB">>, <<"USDC">>, <<"USDT">>}
cTokens     == {<<"f">> \o u : u \in underlyings}

\* assets the price oracle knows that have no market
opfAssets == {<<"BTC">>}

Networks == {[id |-> 56, name |-> "mainnet"], [id |-> 97, name |-> "testnet"]}

Undefined == << >>

\* address[network][name]: the native asset has no token contract
Address(net, name) ==
    IF name \in cTokens \cup (underlyings \ {<<"BNB">>}) \cup {<<"Comptroller">>, <<"COMP">>}
    THEN <<net>> \o name
    ELSE Undefined

\* the decimals table as constants.ts ships it; -1 stands for undefined
InitialDecimals(sym) ==
    IF sym \in cTokens THEN 8
    ELSE IF sym \in {<<"DAI">>, <<"BNB">>} THEN 18
    ELSE IF sym \in {<<"USDC">>, <<"USDT">>} THEN 6
    ELSE 0 - 1

Symbols == underlyings \cup cTokens \cup {<<"XYZ">>, <<"f", "XYZ">>, << >>}

DecimalsOf(sym) == IF sym \in DOMAIN decimals THEN decimals[sym] ELSE 0 - 1

-----------------------------------------------------------------------------
(* Calls *)

Calls == {1, 2}

Absent == [m |-> 0, e |-> 0 - 1]      \* a field that is not set

UserAddress == <<"user">>

NoArgs == [op |-> "none", asset |-> << >>, inAsset |-> << >>, amount |-> Other,
           noApprove |-> "false", borrower |-> "null", mantissa |-> FALSE,
           delegatee |-> "null", expiry |-> Zero,
           address |-> << >>, signature |-> "none"]

NoResult == [state |-> "none", by |-> "none", prefix |-> "none", value |-> Absent]

EmptyOptions == [mantissa |-> FALSE, value |-> Absent, abi |-> "none"]

\* a parameter of a contract call: an address or an amount
AddrParam(a) == [t |-> "addr", a |-> a, v |-> Zero]
AmtParam(v)  == [t |-> "amt", a |-> << >>, v |-> v]

\* eth.read(address, method, parameters, options) as the call leaves the SDK
ReadEntry(to, method, params) ==
    [kind |-> "read", to |-> to, method |-> method, params |-> params,
     value |-> Absent, status |-> "issued", ret |-> Absent]

\* eth.trx(address, method, parameters, options); options.value is the
\* native amount ethers sends along
TrxEntry(to, method, params, opts) ==
    [kind |-> "trx", to |-> to, method |-> method, params |-> params,
     value |-> opts.value, status |-> "issued", ret |-> Absent]

Last(seq) == seq[Len(seq)]

SetLastStatus(seq, st) == [seq EXCEPT ![Len(seq)].status = st]

\* sign(domain, 'Delegation', message, types, signer) as the call hands it
\* to the signer; message is { delegatee, nonce, expiry }
SignEntry(delegatee, nonce, expiry) ==
    [kind |-> "sign", to |-> << >>, method |-> "Delegation",
     params |-> <<AddrParam(<<delegatee>>), AmtParam(nonce), AmtParam(expiry)>>,
     value |-> Absent, status |-> "issued", ret |-> Absent]

\* ethers.utils.isAddress(borrower)
IsAddress(b) == b \in {"0xBorrower", "0xDelegatee"}

\* JavaScript truthiness of the borrower argument
Truthy(b) == b \notin {"null", ""}

Rejected(by, prefix) == [state |-> "rejected", by |-> by, prefix |-> prefix, value |-> Absent]
Resolved(by)         == [state |-> "resolved", by |-> by, prefix |-> "none", value |-> Absent]

\* the promise resolves with the number v
ResolvedWith(by, v)  == [state |-> "resolved", by |-> by, prefix |-> "none", value |-> v]

\* the pending read has resolved with v
ReadResolved(seq, v) == [SetLastStatus(seq, "resolved") EXCEPT ![Len(seq)].ret = v]

-----------------------------------------------------------------------------
(* toChecksumAddress, comp.ts lines 32-52.  A string is a sequence of       *)
(* one-character strings; "sharp-s" names the one character U+00DF, whose   *)
(* upper case is the two characters SS.  keccak256 is a function of the     *)
(* bytes it is given and nothing more is assumed of it: a digest is drawn   *)
(* when a body is hashed for the first time and recalled when the same body *)
(* is hashed again.                                                         *)

\* line 34: new Uint8Array(40), and the bound of the loop of line 36
AddressChars == 40

\* the hexadecimal digits of the digest that keccak256 returns after "0x"
DigestChars == 64

LowerHexLetters == {"a", "f"}
UpperHexLetters == {"A", "F"}
HexChars == {"0", "1", "9"} \cup LowerHexLetters \cup UpperHexLetters

\* String.prototype.toLowerCase, on one character
toLowerCase_char(ch) ==
    CASE ch = "A" -> "a"
      [] ch = "F" -> "f"
      [] ch = "G" -> "g"
      [] ch = "X" -> "x"
      [] ch = "S" -> "s"
      [] OTHER -> ch

\* line 33: _address.toLowerCase()
toLowerCase(str) == [i \in 1..Len(str) |-> toLowerCase_char(str[i])]

\* lines 45: _address[i].toUpperCase(), a string of one or two characters
toUpperCase(ch) ==
    CASE ch = "a" -> <<"A">>
      [] ch = "f" -> <<"F">>
      [] ch = "g" -> <<"G">>
      [] ch = "x" -> <<"X">>
      [] ch = "s" -> <<"S">>
      [] ch = "sharp-s" -> <<"S", "S">>
      [] OTHER -> <<ch>>

\* line 33: .substring(2).split('')
toChecksumAddress_chars(_address) ==
    IF Len(_address) <= 2 THEN << >>
    ELSE SubSeq(toLowerCase(_address), 3, Len(_address))

\* lines 36-38: chars[i].charCodeAt(0) throws a TypeError when chars[i] is
\* undefined, that is when fewer than 40 characters follow the first two
toChecksumAddress_returns(_address) ==
    Len(toChecksumAddress_chars(_address)) >= AddressChars

\* lines 34-38: the bytes handed to keccak256
toChecksumAddress_expanded(_address) ==
    SubSeq(toChecksumAddress_chars(_address), 1, AddressChars)

\* a digest is given by the hexadecimal digits it repeats
Nibbles == {0, 7, 8, 15}
Digests == [1..DigestPeriod -> Nibbles]
NibbleOf(digest, k) == digest[((k - 1) % DigestPeriod) + 1]

\* line 44: parseInt(hash[i], 16) for the i-th character, counted from 1, of
\* the string "0x..." that keccak256 returns; -1 stands for NaN
hashDigit(digest, i) ==
    IF i = 1 THEN 0
    ELSE IF i >= 3 /\ i <= DigestChars + 2 THEN NibbleOf(digest, i - 2)
    ELSE 0 - 1

\* line 44: the i-th character is put in upper case
toChecksumAddress_upper(digest, i) == hashDigit(digest, i) >= 8

\* lines 41-51: ret, built from the first n characters of _address
RECURSIVE toChecksumAddress_ret(_, _, _)
toChecksumAddress_ret(_address, digest, n) ==
    IF n = 0 THEN << >>
    ELSE toChecksumAddress_ret(_address, digest, n - 1)
         \o (IF toChecksumAddress_upper(digest, n)
             THEN toUpperCase(_address[n])
             ELSE <<_address[n]>>)

\* lines 32-52, hash being the digest of expanded
toChecksumAddress(_address, digest) ==
    toChecksumAddress_ret(_address, digest, Len(_address))

\* the digests keccak256 may return for the bytes, given the ones it has
\* returned so far
keccak256(hashed, bytes) ==
    IF \E h \in hashed : h[1] = bytes
    THEN {h[2] : h \in {g \in hashed : g[1] = bytes}}
    ELSE Digests

\* the string of n characters ch
RECURSIVE Repeat(_, _)
Repeat(ch, n) == IF n <= 0 THEN << >> ELSE <<ch>> \o Repeat(ch, n - 1)

NotCalled   == [state |-> "none", ret |-> << >>]
Threw       == [state |-> "threw", ret |-> << >>]
Returned(r) == [state |-> "returned", ret |-> r]

NoChecksum == [input |-> << >>, hashed |-> {}, first |-> NotCalled, second |-> NotCalled]

\* no second instance has been constructed
NoInstance == [networkPromise |-> "none", network |-> [id |-> 0, name |-> "unset"]]

-----------------------------------------------------------------------------
(* Inputs *)

DAI  == <<"DAI">>
BNB  == <<"BNB">>
USDC == <<"USDC">>

AssetInputs == {DAI, BNB, <<"f", "DAI">>, <<"XYZ">>, << >>}

AmountInputs ==
    { Num(1, 0), Num(1, 3), Num(1, MaxInputExp), Num(0 - 5, 0), NaN,
      Str("int", 1, 18), Str("empty", 0, 0), Str("junk", 0, 0), Big(2, 18), Other }

NoApproveInputs == {"true", "false", "1"}     \* true, false, a truthy non-boolean

BorrowerInputs == {"null", "", "0xBorrower", "not-an-address"}

\* createDelegateSignature(delegatee, expiry); expiry defaults to 10e9
DelegateeInputs == {"0xDelegatee", "not-an-address"}
ExpiryInputs    == {Canon(1, 10), Canon(2, 9)}

\* getPrice(asset, inAsset); inAsset defaults to constants.USDC
PriceAssetInputs == {DAI, <<"f", "DAI">>, <<"BTC">>, <<"XYZ">>, << >>}
InAssetInputs    == {USDC, <<"f", "DAI">>, <<"XYZ">>}

\* options.value as the caller passes it: not set, or an amount of native asset
OptionValueInputs == {Absent, Canon(1, 18)}

InitialAllowances == {Zero, Canon(1, 18), Canon(1, MaxAllowanceExp)}

\* the chain's oracle: getUnderlyingPrice of fDAI and of fUSDC are pd and pu,
\* exchangeRateCurrent of fDAI and of fUSDC are rd and ru
Oracle(pd, pu, rd, ru) ==
    [price |-> [t \in cTokens |-> IF t = <<"f", "DAI">> THEN pd
                                  ELSE IF t = <<"f", "USDC">> THEN pu
                                  ELSE Canon(1, 18)],
     rate  |-> [t \in cTokens |-> IF t = <<"f", "DAI">> THEN rd
                                  ELSE IF t = <<"f", "USDC">> THEN ru
                                  ELSE Canon(2, 26)],
     nonce |-> 0]

\* one dollar for an 18-decimal token, 0.02 underlying for one fToken
InitialOracles == {Oracle(Canon(1, 18), Canon(1, 18), Canon(2, 26), Canon(2, 26))}

-----------------------------------------------------------------------------
(* State after construction *)

Init ==
    /\ networkPromise = "pending"
    /\ network = [id |-> 0, name |-> "unset"]
    /\ decimals = [sym \in underlyings \cup cTokens |-> InitialDecimals(sym)]
    /\ options = EmptyOptions
    /\ allowance \in [{DAI} -> InitialAllowances]
    /\ chain \in InitialOracles
    /\ pc = [c \in Calls |-> "idle"]
    /\ args = [c \in Calls |-> NoArgs]
    /\ amount = [c \in Calls |-> Zero]
    /\ trxOptions = [c \in Calls |-> EmptyOptions]
    /\ trace = [c \in Calls |-> << >>]
    /\ result = [c \in Calls |-> NoResult]
    /\ otherInstance = NoInstance
    /\ checksum = NoChecksum

\* the variables of call c after one of its steps
Step(c, npc, namount, ntrxOptions, ntrace, nresult) ==
    /\ pc' = [pc EXCEPT ![c] = npc]
    /\ amount' = [amount EXCEPT ![c] = namount]
    /\ trxOptions' = [trxOptions EXCEPT ![c] = ntrxOptions]
    /\ trace' = [trace EXCEPT ![c] = ntrace]
    /\ result' = [result EXCEPT ![c] = nresult]
    /\ UNCHANGED <<checksum, otherInstance, networkPromise, network, decimals, allowance, chain, args>>

\* the call throws, or the promise it awaits rejects
Throw(c, by, prefix) ==
    Step(c, "done", amount[c], trxOptions[c], trace[c], Rejected(by, prefix))

\* mutant of Fail: a read or send that fails is issued once more
Fail_retryOnce(c, by) ==
    IF \E i \in DOMAIN trace[c] : trace[c][i].status = "failed"
    THEN Step(c, "done", amount[c], trxOptions[c],
              SetLastStatus(trace[c], "failed"), Rejected(by, "none"))
    ELSE Step(c, pc[c], amount[c], trxOptions[c],
              Append(SetLastStatus(trace[c], "failed"),
                     [Last(trace[c]) EXCEPT !.status = "issued"]),
              result[c])

\* mutant of Fail: the failure is caught and the call resolves
Fail_swallowed(c, by) ==
    Step(c, "done", amount[c], trxOptions[c],
         SetLastStatus(trace[c], "failed"), Resolved(by))

\* the awaited promise rejects: the pending invocation has failed
Fail(c, by) ==
    Step(c, "done", amount[c], trxOptions[c],
         SetLastStatus(trace[c], "failed"), Rejected(by, "none"))

-----------------------------------------------------------------------------
(* The constructor's network detection, index.ts lines 86-94 *)

NetworkResolved ==
    /\ networkPromise = "pending"
    /\ \E n \in Networks :
        /\ decimals' = IF n.id = 56 \/ n.name = "mainnet"
                       THEN [decimals EXCEPT ![<<"USDC">>] = 18, ![<<"USDT">>] = 18]
                       ELSE decimals
        /\ networkPromise' = "deleted"
        /\ network' = n
    /\ UNCHANGED <<checksum, otherInstance, options, allowance, chain, pc, args, amount, trxOptions, trace, result>>

\* eth.getProviderNetwork rejects: the .then callback never runs
NetworkRejected ==
    /\ networkPromise = "pending"
    /\ networkPromise' = "rejected"
    /\ UNCHANGED <<checksum, otherInstance, network, decimals, options, allowance, chain, pc, args, amount,
                   trxOptions, trace, result>>

-----------------------------------------------------------------------------
(* A caller invokes an instance method *)

\* the caller passes the options object { mantissa, value? } of its choice
Call(c, a, value) ==
    /\ pc[c] = "idle"
    /\ pc' = [pc EXCEPT ![c] = "netId"]
    /\ args' = [args EXCEPT ![c] = a]
    /\ options' = [mantissa |-> a.mantissa, value |-> value, abi |-> "none"]
    /\ UNCHANGED <<checksum, otherInstance, networkPromise, network, decimals, allowance, chain, amount,
                   trxOptions, trace, result>>

\* helpers.ts netId: `await _compound._networkPromise` rejects
netId_rejected(c) ==
    /\ pc[c] = "netId"
    /\ networkPromise = "rejected"
    /\ Throw(c, "network", "none")
    /\ UNCHANGED options

\* the call is past `await netId(this)`
PastNetId(c, op) ==
    /\ pc[c] = "netId"
    /\ args[c].op = op
    /\ networkPromise = "deleted"

\* what the chain answers to allowance(userAddress, fTokenAddress)
AllowanceOf(asset) == IF asset \in DOMAIN allowance THEN allowance[asset] ELSE Zero

-----------------------------------------------------------------------------
(* supply, fToken.ts lines 50-127 *)

\* mutant of supply_mintOptions: the native amount is not put in options.value
supply_mintOptions_noValue(c, opts) == opts

\* lines 119-126: the options object after `options.value = amount`
supply_mintOptions(c, opts) ==
    IF <<"f">> \o args[c].asset = fBNB THEN [opts EXCEPT !.value = amount'[c]] ELSE opts

\* lines 119-126: eth.trx(fTokenAddress, 'mint', parameters, options)
supply_mint(c, tr, opts) ==
    LET fTokenName == <<"f">> \o args[c].asset
        parameters == IF fTokenName = fBNB THEN << >> ELSE <<AmtParam(amount'[c])>>
    IN  Append(tr, TrxEntry(Address(network.name, fTokenName), "mint", parameters,
                            supply_mintOptions(c, opts)))

\* mutant of supply_gate: `!noApprove` for `noApprove !== true`
supply_gate_falsy(fTokenName, noApprove) == fTokenName # fBNB /\ noApprove = "false"

\* line 94: the allowance gate runs
supply_gate(fTokenName, noApprove) == fTokenName # fBNB /\ noApprove # "true"

\* lines 57-104 and, when the gate is skipped, 119-126
supply_validate(c) ==
    /\ PastNetId(c, "supply")
    /\ LET a == args[c]
           fTokenName == <<"f">> \o a.asset
           fTokenAddress == Address(network.name, fTokenName)
           d == DecimalsOf(a.asset)
           abiOptions == [options EXCEPT !.abi = IF fTokenName = fBNB THEN "fBNB" ELSE "fBep20"]
       IN  IF fTokenAddress = Undefined \/ a.asset \notin underlyings
           THEN Throw(c, "asset", "supply") /\ UNCHANGED options
           ELSE IF ~AmountTypeOk(a.amount)
           THEN Throw(c, "amount", "supply") /\ UNCHANGED options
           ELSE IF ~NormalizeOk(a.amount, options.mantissa, d)
           THEN Throw(c, "BigNumber", "none") /\ UNCHANGED options
           ELSE /\ amount' = [amount EXCEPT ![c] = Normalize(a.amount, options.mantissa, d)]
                /\ IF supply_gate(fTokenName, a.noApprove)
                   THEN /\ options' = abiOptions
                        /\ trace' = [trace EXCEPT ![c] = Append(@,
                              ReadEntry(Address(network.name, a.asset), "allowance",
                                  <<AddrParam(UserAddress), AddrParam(fTokenAddress)>>))]
                        /\ pc' = [pc EXCEPT ![c] = "allowance"]
                   ELSE /\ options' = supply_mintOptions(c, abiOptions)
                        /\ trace' = [trace EXCEPT ![c] = supply_mint(c, @, abiOptions)]
                        /\ pc' = [pc EXCEPT ![c] = "main"]
                /\ UNCHANGED <<checksum, otherInstance, networkPromise, network, decimals, allowance, chain, args,
                               trxOptions, result>>

\* mutant of notEnough: `lte` for `lt`
notEnough_lte(al, amt) == ~ValLt(amt, al)

\* mutant of notEnough: no approve is sent while an approve that some call
\* has sent is not included yet
notEnough_unlessInFlight(al, amt) ==
    /\ ValLt(al, amt)
    /\ ~ \E c \in Calls : \E i \in DOMAIN trace[c] :
            trace[c][i].method = "approve" /\ trace[c][i].status \in {"issued", "pending"}

\* line 106
notEnough(al, amt) == ValLt(al, amt)

\* lines 99-117: the allowance read settles; approve, or go on to mint
supply_allowance(c) ==
    /\ pc[c] = "allowance"
    /\ args[c].op = "supply"
    /\ \/ Fail(c, "read") /\ UNCHANGED options
       \/ LET a == args[c]
              fTokenAddress == Address(network.name, <<"f">> \o a.asset)
              al == AllowanceOf(a.asset)
              read == [SetLastStatus(trace[c], "resolved") EXCEPT ![Len(trace[c])].ret = al]
          IN  /\ amount' = amount
              /\ IF notEnough(al, amount[c])
                 THEN /\ trace' = [trace EXCEPT ![c] = Append(read,
                            TrxEntry(Address(network.name, a.asset), "approve",
                                <<AddrParam(fTokenAddress), AmtParam(amount[c])>>, options))]
                      /\ pc' = [pc EXCEPT ![c] = "approve"]
                      /\ UNCHANGED options
                 ELSE /\ options' = supply_mintOptions(c, options)
                      /\ trace' = [trace EXCEPT ![c] = supply_mint(c, read, options)]
                      /\ pc' = [pc EXCEPT ![c] = "main"]
              /\ UNCHANGED <<checksum, otherInstance, networkPromise, network, decimals, allowance, chain, args,
                             trxOptions, result>>

\* mutant of approve_awaited: the approve send is not awaited
approve_notAwaited(tr) == tr

\* lines 110-115: `await eth.trx(... 'approve' ...)` has resolved with the
\* handle of the sent, not yet included, transaction
approve_awaited(tr) == SetLastStatus(tr, "pending")

\* lines 110-126: the awaited approve send settles; go on to mint
supply_approve(c) ==
    /\ pc[c] = "approve"
    /\ args[c].op = "supply"
    /\ \/ Fail(c, "trx") /\ UNCHANGED options
       \/ /\ amount' = amount
          /\ options' = supply_mintOptions(c, options)
          /\ trace' = [trace EXCEPT ![c] =
                          supply_mint(c, approve_awaited(trace[c]), options)]
          /\ pc' = [pc EXCEPT ![c] = "main"]
          /\ UNCHANGED <<checksum, otherInstance, networkPromise, network, decimals, allowance, chain, args,
                         trxOptions, result>>

\* `return eth.trx(...)`: the call settles as its last send settles
trx_return(c) ==
    /\ pc[c] = "main"
    /\ \/ Fail(c, "trx")
       \/ Step(c, "done", amount[c], trxOptions[c],
               SetLastStatus(trace[c], "pending"), Resolved("trx"))
    /\ UNCHANGED options

\* the chain includes a sent transaction; transactions of one account are
\* included in the order they were sent, and an included approve sets the
\* allowance unless it reverts
Mine(c, i) ==
    /\ i \in DOMAIN trace[c]
    /\ trace[c][i].status = "pending"
    /\ \A j \in 1..(i - 1) : trace[c][j].status # "pending"
    /\ \E reverts \in BOOLEAN :
        /\ trace' = [trace EXCEPT ![c][i].status =
                        IF reverts THEN "reverted" ELSE "included"]
        /\ allowance' = IF ~reverts /\ trace[c][i].method = "approve"
                             /\ args[c].asset \in DOMAIN allowance
                        THEN [allowance EXCEPT ![args[c].asset] = trace[c][i].params[2].v]
                        ELSE allowance
    /\ UNCHANGED <<checksum, otherInstance, networkPromise, network, decimals, options, chain, pc, args,
                   amount, trxOptions, result>>

-----------------------------------------------------------------------------
(* redeem, fToken.ts lines 158-205 *)

\* line 170: asset[0] === 'f'
assetIsFToken(asset) == Len(asset) > 0 /\ asset[1] = "f"

\* mutant of redeem_method: the two entry points swapped
redeem_method_swapped(asset) == IF assetIsFToken(asset) THEN "redeemUnderlying" ELSE "redeem"

\* line 202
redeem_method(asset) == IF assetIsFToken(asset) THEN "redeem" ELSE "redeemUnderlying"

\* line 172
redeem_fTokenName(asset) == IF assetIsFToken(asset) THEN asset ELSE <<"f">> \o asset

redeem_validate(c) ==
    /\ PastNetId(c, "redeem")
    /\ UNCHANGED options
    /\ LET a == args[c]
           fTokenName == redeem_fTokenName(a.asset)
           fTokenAddress == Address(network.name, fTokenName)
           underlyingName == IF assetIsFToken(a.asset) THEN Tail(a.asset) ELSE a.asset
           d == DecimalsOf(a.asset)
           amt == Normalize(a.amount, options.mantissa, d)
           opts == [options EXCEPT !.abi = IF fTokenName = fBNB THEN "fBNB" ELSE "fBep20"]
       IN  IF Len(a.asset) < 1
           THEN Throw(c, "asset", "redeem")
           ELSE IF fTokenName \notin cTokens \/ underlyingName \notin underlyings
           THEN Throw(c, "asset", "redeem")
           ELSE IF ~AmountTypeOk(a.amount)
           THEN Throw(c, "amount", "redeem")
           ELSE IF ~NormalizeOk(a.amount, options.mantissa, d)
           THEN Throw(c, "BigNumber", "none")
           ELSE Step(c, "main", amt, opts,
                     Append(trace[c], TrxEntry(fTokenAddress, redeem_method(a.asset),
                                               <<AmtParam(amt)>>, opts)),
                     result[c])

-----------------------------------------------------------------------------
(* borrow, fToken.ts lines 242-280 *)

\* mutant of borrow_send: an allowance read is made before the send
borrow_send_gated(fTokenAddress, amt, opts) ==
    <<ReadEntry(fTokenAddress, "allowance", <<AddrParam(UserAddress), AddrParam(fTokenAddress)>>),
      TrxEntry(fTokenAddress, "borrow", <<AmtParam(amt)>>, opts)>>

\* line 279: the one send of borrow
borrow_send(fTokenAddress, amt, opts) ==
    <<TrxEntry(fTokenAddress, "borrow", <<AmtParam(amt)>>, opts)>>

borrow_validate(c) ==
    /\ PastNetId(c, "borrow")
    /\ UNCHANGED options
    /\ LET a == args[c]
           fTokenName == <<"f">> \o a.asset
           fTokenAddress == Address(network.name, fTokenName)
           d == DecimalsOf(a.asset)
           amt == Normalize(a.amount, options.mantissa, d)
           opts == [options EXCEPT !.abi = IF fTokenName = fBNB THEN "fBNB" ELSE "fBep20"]
       IN  IF fTokenAddress = Undefined \/ a.asset \notin underlyings
           THEN Throw(c, "asset", "borrow")
           ELSE IF ~AmountTypeOk(a.amount)
           THEN Throw(c, "amount", "borrow")
           ELSE IF ~NormalizeOk(a.amount, options.mantissa, d)
           THEN Throw(c, "BigNumber", "none")
           ELSE Step(c, "main", amt, opts,
                     trace[c] \o borrow_send(fTokenAddress, amt, opts), result[c])

-----------------------------------------------------------------------------
(* repayBorrow, fToken.ts lines 321-399 *)

\* mutant of repayBorrow_method: any truthy borrower selects repayBorrowBehalf
repayBorrow_method_truthy(borrower) ==
    IF Truthy(borrower) THEN "repayBorrowBehalf" ELSE "repayBorrow"

\* line 346
repayBorrow_method(borrower) ==
    IF IsAddress(borrower) THEN "repayBorrowBehalf" ELSE "repayBorrow"

\* lines 364-371
repayBorrow_parameters(asset, borrower, amt) ==
    (IF repayBorrow_method(borrower) = "repayBorrowBehalf"
     THEN <<AddrParam(<<borrower>>)>> ELSE << >>)
    \o (IF <<"f">> \o asset = fBNB THEN << >> ELSE <<AmtParam(amt)>>)

\* line 398
repayBorrow_send(c, tr) ==
    LET a == args[c]
    IN  Append(tr, TrxEntry(Address(network.name, <<"f">> \o a.asset),
                            repayBorrow_method(a.borrower),
                            repayBorrow_parameters(a.asset, a.borrower, amount'[c]),
                            trxOptions'[c]))

\* line 373: the allowance gate runs
repayBorrow_gate(fTokenName, noApprove) == fTokenName # fBNB /\ noApprove # "true"

\* lines 329-383 and, when the gate is skipped, 398
repayBorrow_validate(c) ==
    /\ PastNetId(c, "repayBorrow")
    /\ UNCHANGED options
    /\ LET a == args[c]
           fTokenName == <<"f">> \o a.asset
           fTokenAddress == Address(network.name, fTokenName)
           d == DecimalsOf(a.asset)
           amt == Normalize(a.amount, options.mantissa, d)
           opts == IF fTokenName = fBNB
                   THEN [options EXCEPT !.value = amt, !.abi = "fBNB"]
                   ELSE [options EXCEPT !.abi = "fBep20"]
       IN  IF fTokenAddress = Undefined \/ a.asset \notin underlyings
           THEN Throw(c, "asset", "repayBorrow")
           ELSE IF ~AmountTypeOk(a.amount)
           THEN Throw(c, "amount", "repayBorrow")
           ELSE IF Truthy(a.borrower) /\ repayBorrow_method(a.borrower) = "repayBorrow"
           THEN Throw(c, "borrower", "repayBorrow")
           ELSE IF ~NormalizeOk(a.amount, options.mantissa, d)
           THEN Throw(c, "BigNumber", "none")
           ELSE /\ amount' = [amount EXCEPT ![c] = amt]
                /\ trxOptions' = [trxOptions EXCEPT ![c] = opts]
                /\ IF repayBorrow_gate(fTokenName, a.noApprove)
                   THEN /\ trace' = [trace EXCEPT ![c] = Append(@,
                              ReadEntry(Address(network.name, a.asset), "allowance",
                                  <<AddrParam(UserAddress), AddrParam(fTokenAddress)>>))]
                        /\ pc' = [pc EXCEPT ![c] = "allowance"]
                   ELSE /\ trace' = [trace EXCEPT ![c] = repayBorrow_send(c, @)]
                        /\ pc' = [pc EXCEPT ![c] = "main"]
                /\ UNCHANGED <<checksum, otherInstance, networkPromise, network, decimals, allowance, chain, args, result>>

\* lines 378-398: the allowance read settles; approve, or go on to repay
repayBorrow_allowance(c) ==
    /\ pc[c] = "allowance"
    /\ args[c].op = "repayBorrow"
    /\ UNCHANGED options
    /\ \/ Fail(c, "read")
       \/ LET a == args[c]
              fTokenAddress == Address(network.name, <<"f">> \o a.asset)
              al == AllowanceOf(a.asset)
              read == [SetLastStatus(trace[c], "resolved") EXCEPT ![Len(trace[c])].ret = al]
          IN  /\ amount' = amount
              /\ trxOptions' = trxOptions
              /\ IF notEnough(al, amount[c])
                 THEN /\ trace' = [trace EXCEPT ![c] = Append(read,
                            TrxEntry(Address(network.name, a.asset), "approve",
                                <<AddrParam(fTokenAddress), AmtParam(amount[c])>>,
                                trxOptions[c]))]
                      /\ pc' = [pc EXCEPT ![c] = "approve"]
                 ELSE /\ trace' = [trace EXCEPT ![c] = repayBorrow_send(c, read)]
                      /\ pc' = [pc EXCEPT ![c] = "main"]
              /\ UNCHANGED <<checksum, otherInstance, networkPromise, network, decimals, allowance, chain, args, result>>

\* lines 389-398: the awaited approve send settles; go on to repay
repayBorrow_approve(c) ==
    /\ pc[c] = "approve"
    /\ args[c].op = "repayBorrow"
    /\ UNCHANGED options
    /\ \/ Fail(c, "trx")
       \/ /\ amount' = amount
          /\ trxOptions' = trxOptions
          /\ trace' = [trace EXCEPT ![c] =
                          repayBorrow_send(c, approve_awaited(trace[c]))]
          /\ pc' = [pc EXCEPT ![c] = "main"]
          /\ UNCHANGED <<checksum, otherInstance, networkPromise, network, decimals, allowance, chain, args, result>>

-----------------------------------------------------------------------------
(* claimFortress, comp.ts lines 177-203 *)

\* line 197: eth.trx(comptrollerAddress, 'claimFortress(address)', [userAddress])
claimFortress_send(c, opts) ==
    Append(trace[c], TrxEntry(Address(network.name, <<"Comptroller">>),
                              "claimFortress(address)", <<AddrParam(UserAddress)>>, opts))

\* lines 180-197; the provider either exposes its address or is asked for it
claimFortress_start(c) ==
    /\ PastNetId(c, "claimFortress")
    /\ UNCHANGED options
    /\ \E hasAddress \in BOOLEAN :
          IF hasAddress
          THEN Step(c, "main", amount[c], [options EXCEPT !.abi = "Comptroller"],
                    claimFortress_send(c, [options EXCEPT !.abi = "Comptroller"]), result[c])
          ELSE Step(c, "getAddress", amount[c], trxOptions[c], trace[c], result[c])

\* lines 185-202: provider.getAddress() settles; its rejection is caught by
\* the catch block, which prefixes the message and returns the error
claimFortress_getAddress(c) ==
    /\ pc[c] = "getAddress"
    /\ UNCHANGED options
    /\ \/ Step(c, "done", amount[c], trxOptions[c], trace[c],
               [state |-> "resolved", by |-> "getAddress", prefix |-> "claimFortress",
                value |-> Absent])
       \/ Step(c, "main", amount[c], [options EXCEPT !.abi = "Comptroller"],
               claimFortress_send(c, [options EXCEPT !.abi = "Comptroller"]), result[c])

-----------------------------------------------------------------------------
(* mintFAI and repayFAI, comp.ts lines 806-843 and 874-911 *)

\* lines 811-837
mintFAI_validate(c) ==
    /\ PastNetId(c, "mintFAI")
    /\ UNCHANGED options
    /\ LET a == args[c]
           amt == Normalize(a.amount, options.mantissa, 18)
           opts == [options EXCEPT !.abi = "Comptroller"]
       IN  IF ~AmountTypeOk(a.amount)
           THEN Throw(c, "amount", "mintFAI")
           ELSE IF ~NormalizeOk(a.amount, options.mantissa, 18)
           THEN Throw(c, "BigNumber", "none")
           ELSE Step(c, "main", amt, opts,
                     Append(trace[c], TrxEntry(Address(network.name, <<"Comptroller">>),
                                               "mintFAI", <<AmtParam(amt)>>, opts)),
                     result[c])

\* lines 879-905; line 879 sets the prefix of the validation error
repayFAI_validate(c) ==
    /\ PastNetId(c, "repayFAI")
    /\ UNCHANGED options
    /\ LET a == args[c]
           amt == Normalize(a.amount, options.mantissa, 18)
           opts == [options EXCEPT !.abi = "Comptroller"]
       IN  IF ~AmountTypeOk(a.amount)
           THEN Throw(c, "amount", "mintFAI")
           ELSE IF ~NormalizeOk(a.amount, options.mantissa, 18)
           THEN Throw(c, "BigNumber", "none")
           ELSE Step(c, "main", amt, opts,
                     Append(trace[c], TrxEntry(Address(network.name, <<"Comptroller">>),
                                               "repayFAI", <<AmtParam(amt)>>, opts)),
                     result[c])

-----------------------------------------------------------------------------
(* getPrice, priceFeed.ts lines 15-168 *)

\* lines 20-22 of validateAsset
validateAsset_nonEmpty(asset) == Len(asset) >= 1

\* lines 24-44 of validateAsset: what it returns for a non-empty symbol
validateAsset(asset) ==
    LET isF == assetIsFToken(asset)
        fTokenName == IF isF THEN asset ELSE <<"f">> \o asset
        underlyingName == IF isF THEN Tail(asset) ELSE asset
    IN  [assetIsFToken |-> isF,
         fTokenName |-> fTokenName,
         fTokenAddress |-> Address(network.name, fTokenName),
         underlyingName |-> underlyingName,
         underlyingAddress |-> Address(network.name, underlyingName),
         underlyingDecimals |-> DecimalsOf(underlyingName)]

\* lines 32-37 of validateAsset: the symbol is not refused
validateAsset_supported(asset) ==
    LET v == validateAsset(asset)
    IN  ~ ( /\ (v.fTokenName \notin cTokens \/ v.underlyingName \notin underlyings)
            /\ v.underlyingName \notin opfAssets )

validateAsset_ok(asset) == validateAsset_nonEmpty(asset) /\ validateAsset_supported(asset)

\* the address the 'oracle' read of the Comptroller returns
priceOracleAddress == <<network.name, "PriceOracle">>

\* an address is one of a market: ethers refuses to encode undefined
IsMarket(addr) == Len(addr) > 1 /\ Tail(addr) \in cTokens

\* what the chain answers to getUnderlyingPrice(addr) and to
\* exchangeRateCurrent() of the contract at addr
PriceAt(addr) == chain.price[Tail(addr)]
RateAt(addr)  == chain.rate[Tail(addr)]

\* lines 47-58: the read fTokenExchangeRate makes
fTokenExchangeRate_read(v) == ReadEntry(v.fTokenAddress, "exchangeRateCurrent", << >>)

\* lines 59-62: exchangeRateCurrent / Math.pow(10, 18 + underlyingDecimals - 8)
fTokenExchangeRate(exchangeRateCurrent, underlyingDecimals) ==
    FloatDiv(ToFloat(exchangeRateCurrent), Canon(1, 18 + underlyingDecimals - 8))

\* lines 134-140: the price of asset after the decimal alignment
getPrice_align(assetUnderlyingPrice, assetDecimal, inAssetDecimal) ==
    IF assetDecimal - inAssetDecimal > 0
    THEN BigMulPow10(assetUnderlyingPrice, assetDecimal - inAssetDecimal)
    ELSE BigDivPow10(assetUnderlyingPrice, inAssetDecimal - assetDecimal)

\* lines 152-167; price and rate stand for assetUnderlyingPrice and
\* assetFTokensInUnderlying, inPrice and inRate for those of inAsset
getPrice_result(assetIsF, inAssetIsF, price, inPrice, rate, inRate) ==
    LET assetInOther == FloatDiv(ToFloat(price), ToFloat(inPrice))
    IN  IF ~assetIsF /\ ~inAssetIsF THEN assetInOther
        ELSE IF assetIsF /\ ~inAssetIsF THEN FloatMul(assetInOther, rate)
        ELSE IF ~assetIsF /\ inAssetIsF THEN FloatDiv(assetInOther, inRate)
        ELSE FloatMul(inRate, FloatDiv(assetInOther, rate))

\* lines 134-167 on the values the reads of the trace tr returned: the
\* second and third reads are the prices, the exchange rates follow
getPrice_value(asset, inAsset, tr) ==
    LET a == validateAsset(asset)
        b == validateAsset(inAsset)
    IN  getPrice_result(a.assetIsFToken, b.assetIsFToken,
            getPrice_align(tr[2].ret, DecimalsOf(asset), DecimalsOf(inAsset)),
            tr[3].ret,
            IF a.assetIsFToken
            THEN fTokenExchangeRate(tr[4].ret, a.underlyingDecimals) ELSE NotANumber,
            IF b.assetIsFToken
            THEN fTokenExchangeRate(tr[Len(tr)].ret, b.underlyingDecimals) ELSE NotANumber)

\* lines 97-117: both symbols are validated, then the oracle address is read
getPrice_validate(c) ==
    /\ PastNetId(c, "getPrice")
    /\ UNCHANGED options
    /\ IF ~validateAsset_ok(args[c].asset) \/ ~validateAsset_ok(args[c].inAsset)
       THEN Throw(c, "asset", "getPrice")
       ELSE Step(c, "oracle", amount[c], trxOptions[c],
                 Append(trace[c], ReadEntry(Address(network.name, <<"Comptroller">>),
                                            "oracle", << >>)),
                 result[c])

\* lines 117-131: the oracle read settles; read the price of asset
getPrice_oracle(c) ==
    /\ pc[c] = "oracle"
    /\ UNCHANGED options
    /\ \/ Fail(c, "read")
       \/ Step(c, "assetPrice", amount[c], trxOptions[c],
               Append(SetLastStatus(trace[c], "resolved"),
                      ReadEntry(priceOracleAddress, "getUnderlyingPrice",
                          <<AddrParam(validateAsset(args[c].asset).fTokenAddress)>>)),
               result[c])

\* lines 131-132: the price of asset is read; read the price of inAsset
getPrice_assetPrice(c) ==
    /\ pc[c] = "assetPrice"
    /\ UNCHANGED options
    /\ \/ Fail(c, "read")
       \/ /\ IsMarket(Last(trace[c]).params[1].a)
          /\ Step(c, "inAssetPrice", amount[c], trxOptions[c],
                  Append(ReadResolved(trace[c], PriceAt(Last(trace[c]).params[1].a)),
                         ReadEntry(priceOracleAddress, "getUnderlyingPrice",
                             <<AddrParam(validateAsset(args[c].inAsset).fTokenAddress)>>)),
                  result[c])

\* lines 134-140: decimals[asset] - decimals[inAsset] is a number, so that
\* BigNumber.from("10").pow(...) does not throw
getPrice_alignOk(asset, inAsset) == DecimalsOf(asset) >= 0 /\ DecimalsOf(inAsset) >= 0

\* lines 132-167: the price of inAsset is read; align the decimals, then
\* read the exchange rate of each side that is an fToken
getPrice_inAssetPrice(c) ==
    /\ pc[c] = "inAssetPrice"
    /\ UNCHANGED options
    /\ \/ Fail(c, "read")
       \/ /\ IsMarket(Last(trace[c]).params[1].a)
          /\ LET a == validateAsset(args[c].asset)
                 b == validateAsset(args[c].inAsset)
                 tr == ReadResolved(trace[c], PriceAt(Last(trace[c]).params[1].a))
             IN  IF ~getPrice_alignOk(args[c].asset, args[c].inAsset)
                 THEN Step(c, "done", amount[c], trxOptions[c], tr,
                           Rejected("BigNumber", "none"))
                 ELSE IF a.assetIsFToken
                 THEN Step(c, "assetRate", amount[c], trxOptions[c],
                           Append(tr, fTokenExchangeRate_read(a)), result[c])
                 ELSE IF b.assetIsFToken
                 THEN Step(c, "inAssetRate", amount[c], trxOptions[c],
                           Append(tr, fTokenExchangeRate_read(b)), result[c])
                 ELSE Step(c, "done", amount[c], trxOptions[c], tr,
                           ResolvedWith("price",
                               getPrice_value(args[c].asset, args[c].inAsset, tr)))

\* lines 144-167: the exchange rate of asset is read
getPrice_assetRate(c) ==
    /\ pc[c] = "assetRate"
    /\ UNCHANGED options
    /\ \/ Fail(c, "read")
       \/ LET b == validateAsset(args[c].inAsset)
              tr == ReadResolved(trace[c], RateAt(Last(trace[c]).to))
          IN  IF b.assetIsFToken
              THEN Step(c, "inAssetRate", amount[c], trxOptions[c],
                        Append(tr, fTokenExchangeRate_read(b)), result[c])
              ELSE Step(c, "done", amount[c], trxOptions[c], tr,
                        ResolvedWith("price",
                            getPrice_value(args[c].asset, args[c].inAsset, tr)))

\* lines 148-167: the exchange rate of inAsset is read
getPrice_inAssetRate(c) ==
    /\ pc[c] = "inAssetRate"
    /\ UNCHANGED options
    /\ \/ Fail(c, "read")
       \/ LET tr == ReadResolved(trace[c], RateAt(Last(trace[c]).to))
          IN  Step(c, "done", amount[c], trxOptions[c], tr,
                   ResolvedWith("price",
                       getPrice_value(args[c].asset, args[c].inAsset, tr)))

-----------------------------------------------------------------------------
(* delegate, delegateBySig and the FAI queries of comp.ts *)

\* an argument that is not a string
NotAString == <<"not-a-string">>

\* lines 237-245 of delegate, the same in delegateBySig and in the queries
\* that take an address: the argument is refused
address_refused(_address) ==
    _address = NotAString \/ ~toChecksumAddress_returns(_address)

\* what the chain answers to a query of the Comptroller
FAIAmount == Canon(1, 18)

\* a signature { v, r, s } as a parameter of delegateBySig
SigParam == [t |-> "sig", a |-> <<"v", "r", "s">>, v |-> Zero]

\* lines 233-256
delegate_validate(c) ==
    /\ PastNetId(c, "delegate")
    /\ UNCHANGED options
    /\ LET _address == args[c].address
           opts == [options EXCEPT !.abi = "COMP"]
       IN  IF address_refused(_address)
           THEN Throw(c, "address", "delegate")
           ELSE \E d \in Digests :
                  Step(c, "main", amount[c], opts,
                       Append(trace[c], TrxEntry(Address(network.name, <<"COMP">>),
                                  "delegate",
                                  <<AddrParam(toChecksumAddress(_address, d))>>, opts)),
                       result[c])

\* lines 304-346; nonce is the amount argument of the call
delegateBySig_validate(c) ==
    /\ PastNetId(c, "delegateBySig")
    /\ UNCHANGED options
    /\ LET a == args[c]
           opts == [options EXCEPT !.abi = "COMP"]
       IN  IF address_refused(a.address)
           THEN Throw(c, "address", "delegateBySig")
           ELSE IF a.amount.type # "number"
           THEN Throw(c, "nonce", "delegateBySig")
           ELSE IF a.expiry = Absent
           THEN Throw(c, "expiry", "delegateBySig")
           ELSE IF a.signature # "vrs"
           THEN Throw(c, "signature", "delegateBySig")
           ELSE \E d \in Digests :
                  Step(c, "main", amount[c], opts,
                       Append(trace[c], TrxEntry(Address(network.name, <<"COMP">>),
                                  "delegateBySig",
                                  <<AddrParam(toChecksumAddress(a.address, d)),
                                    AmtParam(ValueOf(a.amount)), AmtParam(a.expiry),
                                    SigParam>>, opts)),
                       result[c])

\* address[this._network.name]: this._network is undefined until the network
\* detection has set it, and reading a property of undefined throws
network_undefined == network.name = "unset"

\* the queries of the Comptroller that take an address; mintedFAIs (lines
\* 675-701) is mintedFAIOf under another name
AddressQueries == {"getMintableFAI", "mintedFAIOf"}

\* lines 458-478 of getMintableFAI, 626-646 of mintedFAIOf: the method has no
\* `await netId(this)`, its body runs as soon as it is called
getMintableFAI_start(c) ==
    /\ pc[c] = "netId"
    /\ args[c].op \in AddressQueries
    /\ UNCHANGED options
    /\ LET _address == args[c].address
           method == args[c].op
       IN  IF address_refused(_address)
           THEN Throw(c, "address", method)
           ELSE IF network_undefined
           THEN Throw(c, "TypeError", "none")
           ELSE \E d \in Digests :
                  Step(c, "query", amount[c], [options EXCEPT !.abi = "Comptroller"],
                       Append(trace[c], ReadEntry(Address(network.name, <<"Comptroller">>),
                                  method, <<AddrParam(toChecksumAddress(_address, d))>>)),
                       result[c])

\* lines 512-519 of getFAIMintRate: no `await netId(this)` either
getFAIMintRate_start(c) ==
    /\ pc[c] = "netId"
    /\ args[c].op = "getFAIMintRate"
    /\ UNCHANGED options
    /\ IF network_undefined
       THEN Throw(c, "TypeError", "none")
       ELSE Step(c, "query", amount[c], [options EXCEPT !.abi = "Comptroller"],
                 Append(trace[c], ReadEntry(Address(network.name, <<"Comptroller">>),
                            "getFAIMintRate", << >>)),
                 result[c])

\* lines 478-483 of getMintableFAI: the read settles; the answer is a pair
\* (error code, amount)
getMintableFAI_return(c) ==
    /\ pc[c] = "query"
    /\ args[c].op = "getMintableFAI"
    /\ UNCHANGED options
    /\ \/ Fail(c, "read")
       \/ Step(c, "done", amount[c], trxOptions[c],
               ReadResolved(trace[c], Zero), Rejected("contract", "getMintableFAI"))
       \/ Step(c, "done", amount[c], trxOptions[c],
               ReadResolved(trace[c], FAIAmount), ResolvedWith("read", FAIAmount))

\* line 520 of getFAIMintRate, 647 of mintedFAIOf: return result.toString()
query_return(c) ==
    /\ pc[c] = "query"
    /\ args[c].op \in {"mintedFAIOf", "getFAIMintRate"}
    /\ UNCHANGED options
    /\ \/ Fail(c, "read")
       \/ Step(c, "done", amount[c], trxOptions[c],
               ReadResolved(trace[c], FAIAmount), ResolvedWith("read", FAIAmount))

-----------------------------------------------------------------------------
(* The calls a caller makes *)

ArgsOf(op, assets, amounts, noApproves, borrowers) ==
    [op : {op}, asset : assets, inAsset : {USDC}, amount : amounts,
     noApprove : noApproves, borrower : borrowers, mantissa : BOOLEAN,
     delegatee : {"null"}, expiry : {Zero},
     address : {<< >>}, signature : {"none"}]

\* the address arguments: a checksummed-to-be address in lower case, the same
\* without its prefix, one with a letter that is not a hex digit, one of 21
\* bytes, a short string, a value that is not a string
AddressInputs ==
    { <<"0", "x">> \o Repeat("a", AddressChars),
      Repeat("a", AddressChars),
      <<"0", "x", "g">> \o Repeat("a", AddressChars - 1),
      <<"0", "x">> \o Repeat("a", AddressChars + 2),
      <<"0", "x", "a">>,
      NotAString }

\* delegateBySig(_address, nonce, expiry, signature)
NonceInputs     == {Num(1, 0), Str("int", 1, 0)}
SignatureInputs == {"vrs", "empty"}

AddressArgsOf(op, nonces, expiries, signatures) ==
    [op : {op}, asset : {<< >>}, inAsset : {USDC}, amount : nonces,
     noApprove : {"false"}, borrower : {"null"}, mantissa : {FALSE},
     delegatee : {"null"}, expiry : expiries,
     address : AddressInputs, signature : signatures]

CallInputs ==
    ArgsOf("supply", AssetInputs, AmountInputs, NoApproveInputs, {"null"})
    \cup ArgsOf("redeem", AssetInputs, AmountInputs, {"false"}, {"null"})
    \cup ArgsOf("borrow", AssetInputs, AmountInputs, {"false"}, {"null"})
    \cup ArgsOf("repayBorrow", AssetInputs, AmountInputs, NoApproveInputs, BorrowerInputs)
    \cup ArgsOf("claimFortress", {<< >>}, {Other}, {"false"}, {"null"})
    \cup ArgsOf("mintFAI", {<< >>}, AmountInputs, {"false"}, {"null"})
    \cup ArgsOf("repayFAI", {<< >>}, AmountInputs, {"false"}, {"null"})
    \cup AddressArgsOf("delegate", {Other}, {Zero}, {"none"})
    \cup AddressArgsOf("delegateBySig", NonceInputs, {Canon(1, 10), Absent}, SignatureInputs)
    \cup AddressArgsOf("getMintableFAI", {Other}, {Zero}, {"none"})
    \cup AddressArgsOf("mintedFAIOf", {Other}, {Zero}, {"none"})
    \cup {[a EXCEPT !.address = << >>] :
             a \in AddressArgsOf("getFAIMintRate", {Other}, {Zero}, {"none"})}
    \cup [op : {"getPrice"}, asset : PriceAssetInputs, inAsset : InAssetInputs,
          amount : {Other}, noApprove : {"false"}, borrower : {"null"},
          mantissa : {FALSE}, delegatee : {"null"}, expiry : {Zero},
     address : {<< >>}, signature : {"none"}]

\* a caller invokes one of the methods with arguments of its choice
Invoke(c) ==
    /\ pc[c] = "idle"
    /\ \E a \in CallInputs, value \in OptionValueInputs : Call(c, a, value)

\* one call at a time on one instance
Next ==
    \/ NetworkResolved
    \/ NetworkRejected
    \/ Invoke(1)
    \/ netId_rejected(1)
    \/ supply_validate(1)
    \/ supply_allowance(1)
    \/ supply_approve(1)
    \/ redeem_validate(1)
    \/ borrow_validate(1)
    \/ repayBorrow_validate(1)
    \/ repayBorrow_allowance(1)
    \/ repayBorrow_approve(1)
    \/ claimFortress_start(1)
    \/ claimFortress_getAddress(1)
    \/ mintFAI_validate(1)
    \/ repayFAI_validate(1)
    \/ getPrice_validate(1)
    \/ getPrice_oracle(1)
    \/ getPrice_assetPrice(1)
    \/ getPrice_inAssetPrice(1)
    \/ getPrice_assetRate(1)
    \/ getPrice_inAssetRate(1)
    \/ delegate_validate(1)
    \/ delegateBySig_validate(1)
    \/ getMintableFAI_start(1)
    \/ getFAIMintRate_start(1)
    \/ getMintableFAI_return(1)
    \/ query_return(1)
    \/ trx_return(1)
    \/ \E i \in 1..3 : Mine(1, i)

Spec == Init /\ [][Next]_vars

-----------------------------------------------------------------------------
(* createDelegateSignature, comp.ts lines 375-427 *)

\* mutant of createDelegateSignature_message: the nonce after the one read
createDelegateSignature_message_next(delegatee, nonce, expiry) ==
    SignEntry(delegatee, [m |-> nonce.m + 1, e |-> 0], expiry)

\* mutant of createDelegateSignature_message: a nonce that was not read
createDelegateSignature_message_zero(delegatee, nonce, expiry) ==
    SignEntry(delegatee, Zero, expiry)

\* line 403: const message = { delegatee, nonce, expiry }
createDelegateSignature_message(delegatee, nonce, expiry) ==
    SignEntry(delegatee, nonce, expiry)

\* lines 391-396: eth.read(compAddress, 'nonces', [ userAddress ])
createDelegateSignature_read(c) ==
    Append(trace[c], ReadEntry(Address(network.name, <<"COMP">>), "nonces",
                               <<AddrParam(UserAddress)>>))

\* lines 379-396; the provider either exposes its address or is asked for it
createDelegateSignature_start(c) ==
    /\ PastNetId(c, "createDelegateSignature")
    /\ UNCHANGED options
    /\ \E hasAddress \in BOOLEAN :
          IF hasAddress
          THEN Step(c, "nonce", amount[c], trxOptions[c],
                    createDelegateSignature_read(c), result[c])
          ELSE Step(c, "signerAddress", amount[c], trxOptions[c], trace[c], result[c])

\* lines 386-396: provider.getAddress() settles
createDelegateSignature_getAddress(c) ==
    /\ pc[c] = "signerAddress"
    /\ UNCHANGED options
    /\ \/ Throw(c, "getAddress", "none")
       \/ Step(c, "nonce", amount[c], trxOptions[c],
               createDelegateSignature_read(c), result[c])

\* lines 391-423: the nonce read settles; the message is handed to the signer
createDelegateSignature_nonce(c) ==
    /\ pc[c] = "nonce"
    /\ UNCHANGED options
    /\ \/ Fail(c, "read")
       \/ LET nonce == [m |-> chain.nonce, e |-> 0]
          IN  Step(c, "sign", amount[c], trxOptions[c],
                   Append(ReadResolved(trace[c], nonce),
                          createDelegateSignature_message(args[c].delegatee, nonce,
                                                          args[c].expiry)),
                   result[c])

\* lines 423-426: the signer settles; its signature is returned
createDelegateSignature_signed(c) ==
    /\ pc[c] = "sign"
    /\ UNCHANGED options
    /\ \/ Fail(c, "sign")
       \/ Step(c, "done", amount[c], trxOptions[c],
               SetLastStatus(trace[c], "resolved"), Resolved("signature"))

\* the signatures call c has obtained
Signed(c) == {i \in DOMAIN trace[c] :
                 trace[c][i].kind = "sign" /\ trace[c][i].status = "resolved"}

\* the chain includes a delegateBySig transaction that carries a signature
\* over the stored nonce, and increments the stored nonce
DelegationIncluded ==
    /\ chain.nonce < MaxNonce
    /\ \E c \in Calls : \E i \in Signed(c) :
          /\ trace[c][i].params[2].v.m = chain.nonce
          /\ IsAddress(trace[c][i].params[1].a[1])
    /\ chain' = [chain EXCEPT !.nonce = @ + 1]
    /\ UNCHANGED <<checksum, otherInstance, networkPromise, network, decimals, options, allowance, pc, args,
                   amount, trxOptions, trace, result>>

DelegationCallInputs ==
    [op : {"createDelegateSignature"}, asset : {<< >>}, inAsset : {<< >>},
     amount : {Other}, noApprove : {"false"}, borrower : {"null"}, mantissa : {FALSE},
     delegatee : DelegateeInputs, expiry : ExpiryInputs,
     address : {<< >>}, signature : {"none"}]

createDelegateSignature_call(c) ==
    /\ pc[c] = "idle"
    /\ \E a \in DelegationCallInputs : Call(c, a, Absent)

\* calls of createDelegateSignature by one signer, and the chain
DelegationNext ==
    \/ NetworkResolved
    \/ DelegationIncluded
    \/ \E c \in Calls :
          \/ createDelegateSignature_call(c)
          \/ createDelegateSignature_start(c)
          \/ createDelegateSignature_getAddress(c)
          \/ createDelegateSignature_nonce(c)
          \/ createDelegateSignature_signed(c)

DelegationSpec == Init /\ [][DelegationNext]_vars

-----------------------------------------------------------------------------
(* Prices: two getPrice calls, one after the other, against one chain state *)

PriceSymbols == {DAI, <<"f", "DAI">>, USDC, <<"f", "USDC">>}

PriceCallInputs ==
    [op : {"getPrice"}, asset : PriceSymbols, inAsset : PriceSymbols,
     amount : {Other}, noApprove : {"false"}, borrower : {"null"}, mantissa : {FALSE},
     delegatee : {"null"}, expiry : {Zero},
     address : {<< >>}, signature : {"none"}]

\* getUnderlyingPrice(fDAI) answers: 10^18 times the price of DAI in dollars
PriceValues == {Canon(1, 18), Canon(15, 9)}

\* exchangeRateCurrent of fDAI answers: 0.02 and 0.03 DAI for one fDAI
RateValues == {Canon(2, 26), Canon(3, 26)}

PriceOracles ==
    {Oracle(pd, Canon(1, 18), rd, Canon(2, 26)) : pd \in PriceValues, rd \in RateValues}

PriceInit ==
    /\ networkPromise = "pending"
    /\ network = [id |-> 0, name |-> "unset"]
    /\ decimals = [sym \in underlyings \cup cTokens |-> InitialDecimals(sym)]
    /\ options = EmptyOptions
    /\ allowance = [a \in {DAI} |-> Zero]
    /\ chain \in PriceOracles
    /\ pc = [c \in Calls |-> "idle"]
    /\ args = [c \in Calls |-> NoArgs]
    /\ amount = [c \in Calls |-> Zero]
    /\ trxOptions = [c \in Calls |-> EmptyOptions]
    /\ trace = [c \in Calls |-> << >>]
    /\ result = [c \in Calls |-> NoResult]
    /\ otherInstance = NoInstance
    /\ checksum = NoChecksum

\* the caller asks for a price; the second call is made once the first has
\* settled
getPrice_call(c) ==
    /\ pc[c] = "idle"
    /\ \A b \in Calls : b < c => pc[b] = "done"
    /\ \E a \in PriceCallInputs : Call(c, a, Absent)

PriceNext ==
    \/ NetworkResolved
    \/ \E c \in Calls :
          \/ getPrice_call(c)
          \/ getPrice_validate(c)
          \/ getPrice_oracle(c)
          \/ getPrice_assetPrice(c)
          \/ getPrice_inAssetPrice(c)
          \/ getPrice_assetRate(c)
          \/ getPrice_inAssetRate(c)

PriceSpec == PriceInit /\ [][PriceNext]_vars

-----------------------------------------------------------------------------
(* Checksums: toChecksumAddress applied to a string, then to what it        *)
(* returned                                                                 *)

\* the strings handed to toChecksumAddress: p is what stands where the
\* prefix is expected, then n characters: h, as many f as needed, t
ChecksumInputs ==
    { p \o h \o Repeat(f, n - Len(h) - Len(t)) \o t :
        p \in {<< >>, <<"0", "x">>, <<"0", "X">>},
        h \in {<< >>, <<"A">>, <<"g">>},
        f \in {"a", "F", "1"},
        t \in {<< >>, <<"sharp-s">>},
        n \in {AddressChars - 1, AddressChars, AddressChars + 1} }

ChecksumInit ==
    /\ networkPromise = "pending"
    /\ network = [id |-> 0, name |-> "unset"]
    /\ decimals = [sym \in underlyings \cup cTokens |-> InitialDecimals(sym)]
    /\ options = EmptyOptions
    /\ allowance = [a \in {DAI} |-> Zero]
    /\ chain \in InitialOracles
    /\ pc = [c \in Calls |-> "idle"]
    /\ args = [c \in Calls |-> NoArgs]
    /\ amount = [c \in Calls |-> Zero]
    /\ trxOptions = [c \in Calls |-> EmptyOptions]
    /\ trace = [c \in Calls |-> << >>]
    /\ result = [c \in Calls |-> NoResult]
    /\ otherInstance = NoInstance
    /\ checksum \in {[NoChecksum EXCEPT !.input = a] : a \in ChecksumInputs}

\* lines 32-52 applied to _address: what the call returns and the digests
\* keccak256 has returned after it
toChecksumAddress_call(_address, hashed) ==
    IF ~toChecksumAddress_returns(_address)
    THEN {[result |-> Threw, hashed |-> hashed]}
    ELSE {[result |-> Returned(toChecksumAddress(_address, d)),
           hashed |-> hashed \cup {<<toChecksumAddress_expanded(_address), d>>}] :
             d \in keccak256(hashed, toChecksumAddress_expanded(_address))}

\* toChecksumAddress(input)
toChecksumAddress_first ==
    /\ checksum.first = NotCalled
    /\ \E r \in toChecksumAddress_call(checksum.input, checksum.hashed) :
          checksum' = [checksum EXCEPT !.first = r.result, !.hashed = r.hashed]
    /\ UNCHANGED <<networkPromise, network, decimals, options, allowance, chain, pc,
                   args, amount, trxOptions, trace, result, otherInstance>>

\* toChecksumAddress(toChecksumAddress(input))
toChecksumAddress_second ==
    /\ checksum.first.state = "returned"
    /\ checksum.second = NotCalled
    /\ \E r \in toChecksumAddress_call(checksum.first.ret, checksum.hashed) :
          checksum' = [checksum EXCEPT !.second = r.result, !.hashed = r.hashed]
    /\ UNCHANGED <<networkPromise, network, decimals, options, allowance, chain, pc,
                   args, amount, trxOptions, trace, result, otherInstance>>

ChecksumNext ==
    \/ toChecksumAddress_first
    \/ toChecksumAddress_second

ChecksumSpec == ChecksumInit /\ [][ChecksumNext]_vars

-----------------------------------------------------------------------------
(* Decimals: one call of an instance while a second instance is constructed *)
(* in the same process; the decimals table is the one object of            *)
(* constants.ts that index.ts and fToken.ts import                          *)

\* new Fortress(...) once more: index.ts lines 52-97
OtherConstructed ==
    /\ otherInstance.networkPromise = "none"
    /\ otherInstance' = [otherInstance EXCEPT !.networkPromise = "pending"]
    /\ UNCHANGED <<networkPromise, network, decimals, options, allowance, chain, pc,
                   args, amount, trxOptions, trace, result, checksum>>

\* index.ts lines 86-94, run for the second instance
OtherNetworkResolved ==
    /\ otherInstance.networkPromise = "pending"
    /\ \E n \in Networks :
        /\ decimals' = IF n.id = 56 \/ n.name = "mainnet"
                       THEN [decimals EXCEPT ![<<"USDC">>] = 18, ![<<"USDT">>] = 18]
                       ELSE decimals
        /\ otherInstance' = [networkPromise |-> "deleted", network |-> n]
    /\ UNCHANGED <<networkPromise, network, options, allowance, chain, pc,
                   args, amount, trxOptions, trace, result, checksum>>

DecimalsCallInputs ==
    ArgsOf("supply", {USDC, DAI}, {Num(1, 0), Str("int", 1, 6)}, {"true"}, {"null"})
    \cup ArgsOf("borrow", {USDC, DAI}, {Num(1, 0), Str("int", 1, 6)}, {"false"}, {"null"})

decimals_call(c) ==
    /\ pc[c] = "idle"
    /\ \E a \in DecimalsCallInputs : Call(c, a, Absent)

DecimalsNext ==
    \/ NetworkResolved
    \/ OtherConstructed
    \/ OtherNetworkResolved
    \/ decimals_call(1)
    \/ supply_validate(1)
    \/ borrow_validate(1)
    \/ trx_return(1)

DecimalsSpec == Init /\ [][DecimalsNext]_vars

-----------------------------------------------------------------------------
(* Concurrency: two calls of supply or repayBorrow in flight at once, for   *)
(* the same account, market and asset, each with options { } of its own     *)

ConcurrentCallInputs ==
    ArgsOf("supply", {DAI}, {Num(1, 0), Num(2, 0)}, {"false"}, {"null"})
    \cup ArgsOf("repayBorrow", {DAI}, {Num(1, 0), Num(2, 0)}, {"false"}, {"null"})

concurrent_call(c) ==
    /\ pc[c] = "idle"
    /\ \E a \in {b \in ConcurrentCallInputs : ~b.mantissa} : Call(c, a, Absent)

ConcurrentNext ==
    \/ NetworkResolved
    \/ \E c \in Calls :
          \/ concurrent_call(c)
          \/ supply_validate(c)
          \/ supply_allowance(c)
          \/ supply_approve(c)
          \/ repayBorrow_validate(c)
          \/ repayBorrow_allowance(c)
          \/ repayBorrow_approve(c)
          \/ trx_return(c)
          \/ \E i \in 1..3 : Mine(c, i)

ConcurrentSpec == Init /\ [][ConcurrentNext]_vars

-----------------------------------------------------------------------------
(* Reuse: two calls, one after the other, the second made with the options  *)
(* object the caller passed to the first                                    *)

ReuseCallInputs ==
    ArgsOf("supply", {BNB, DAI}, {Num(1, 0)}, {"true", "false"}, {"null"})
    \cup ArgsOf("redeem", {DAI}, {Num(1, 0)}, {"false"}, {"null"})
    \cup ArgsOf("borrow", {DAI}, {Num(1, 0)}, {"false"}, {"null"})
    \cup ArgsOf("repayBorrow", {BNB, DAI}, {Num(1, 0)}, {"true"}, {"null"})

\* the caller makes a call with a new options object that sets no value
first_call(c) ==
    /\ pc[c] = "idle"
    /\ \E a \in ReuseCallInputs : Call(c, a, Absent)

\* once the first call has settled, the caller makes a call with the same
\* options object
reuse_call(c) ==
    /\ pc[c] = "idle"
    /\ \E b \in Calls : b < c /\ pc[b] = "done"
    /\ \E a \in ReuseCallInputs :
          /\ a.mantissa = options.mantissa
          /\ pc' = [pc EXCEPT ![c] = "netId"]
          /\ args' = [args EXCEPT ![c] = a]
    /\ UNCHANGED <<networkPromise, network, decimals, options, allowance, chain,
                   amount, trxOptions, trace, result, otherInstance, checksum>>

ReuseNext ==
    \/ NetworkResolved
    \/ first_call(1)
    \/ reuse_call(2)
    \/ \E c \in Calls :
          \/ supply_validate(c)
          \/ supply_allowance(c)
          \/ supply_approve(c)
          \/ redeem_validate(c)
          \/ borrow_validate(c)
          \/ repayBorrow_validate(c)
          \/ trx_return(c)

ReuseSpec == Init /\ [][ReuseNext]_vars

-----------------------------------------------------------------------------
(* What a call has done on the chain, read off its trace *)

Reads(c)    == {i \in DOMAIN trace[c] : trace[c][i].kind = "read"}
Approves(c) == {i \in DOMAIN trace[c] :
                   trace[c][i].kind = "trx" /\ trace[c][i].method = "approve"}
Mains(c)    == {i \in DOMAIN trace[c] :
                   trace[c][i].kind = "trx" /\ trace[c][i].method # "approve"}

AmountParams(e) == {k \in DOMAIN e.params : e.params[k].t = "amt"}

IsGatedOp(c) == args[c].op \in {"supply", "repayBorrow"}

\* the operations that take an amount
AmountOps == {"supply", "redeem", "borrow", "repayBorrow", "mintFAI", "repayFAI"}

FTokenAddressOf(c) == <<network.name, "f">> \o args[c].asset

-----------------------------------------------------------------------------
(* C1 *)

\* C1: in supply and repayBorrow, once the allowance read has returned a
\* value: if it is >= the normalized amount no approve is ever sent; if it is
\* lower, exactly one approve is sent, with the fToken contract as spender and
\* the normalized amount as amount.
C1_AllowanceGate ==
    \A c \in Calls : IsGatedOp(c) =>
        \A i \in Reads(c) : trace[c][i].status = "resolved" =>
            IF ValLt(trace[c][i].ret, amount[c])
            THEN /\ Cardinality(Approves(c)) = 1
                 /\ \A j \in Approves(c) :
                       /\ j > i
                       /\ trace[c][j].params =
                            <<AddrParam(FTokenAddressOf(c)), AmtParam(amount[c])>>
            ELSE Approves(c) = {}

\* a repayBorrow whose allowance read came back too low has sent its approve
C1_Witness ==
    \E c \in Calls :
        /\ args[c].op = "repayBorrow"
        /\ \E i \in Reads(c) : /\ trace[c][i].status = "resolved"
                               /\ ValLt(trace[c][i].ret, amount[c])
        /\ Approves(c) # {}

-----------------------------------------------------------------------------
(* C2 *)

Included(e) == e.status \in {"included", "reverted"}

\* C2 as stated: whenever the main transaction of supply or repayBorrow has
\* been sent after an approve, that approve is already included on-chain.
C2_MainAfterApproveIncluded ==
    \A c \in Calls : IsGatedOp(c) =>
        \A j \in Mains(c) : \A i \in Approves(c) : Included(trace[c][i])

\* C2 as amended: the main transaction is sent only after the approve send has
\* resolved with its transaction handle (the transaction is sent, not
\* necessarily included), and an approve is sent only after the allowance
\* read has resolved.
C2_MainAfterApproveSent ==
    \A c \in Calls : IsGatedOp(c) =>
        /\ \A j \in Mains(c) : \A i \in Approves(c) :
              i < j /\ trace[c][i].status \in {"pending", "included", "reverted"}
        /\ \A i \in Approves(c) :
              \E r \in Reads(c) : r < i /\ trace[c][r].status = "resolved"

\* the main transaction is out while the approve before it is still pending
C2_Witness ==
    \E c \in Calls :
        /\ args[c].op = "supply"
        /\ \E j \in Mains(c) : \E i \in Approves(c) : trace[c][i].status = "pending"

-----------------------------------------------------------------------------
(* C3 *)

\* C3: for a non-native asset, with noApprove === true supply and repayBorrow
\* make no allowance read and send no approve, their main transaction being
\* their only chain interaction; with any other value of the flag the first
\* thing they do on the chain is the allowance read.
C3_ExplicitSkipOnly ==
    \A c \in Calls : (IsGatedOp(c) /\ args[c].asset # BNB) =>
        IF args[c].noApprove = "true"
        THEN /\ Reads(c) = {} /\ Approves(c) = {}
             /\ Len(trace[c]) <= 1
             /\ result[c].state = "resolved" => Cardinality(Mains(c)) = 1
        ELSE /\ trace[c] # << >> =>
                  trace[c][1].kind = "read" /\ trace[c][1].method = "allowance"
             /\ result[c].state = "resolved" => Reads(c) # {}

\* a supply called with a truthy noApprove other than true has read the allowance
C3_Witness ==
    \E c \in Calls :
        /\ args[c].op = "supply" /\ args[c].noApprove = "1"
        /\ Reads(c) # {}
        /\ result[c].state = "resolved"

-----------------------------------------------------------------------------
(* C4 *)

\* C4: the main transaction of supply and repayBorrow carries, for the native
\* asset, the normalized amount in its value field and no amount argument,
\* with no allowance read and no approve before it; for any other asset it
\* carries the amount as an argument, after the allowance read has resolved
\* unless the gate was skipped.
C4_NativeValueField ==
    \A c \in Calls : IsGatedOp(c) =>
        \A j \in Mains(c) :
            IF args[c].asset = BNB
            THEN /\ trace[c][j].value = amount[c]
                 /\ AmountParams(trace[c][j]) = {}
                 /\ Reads(c) = {} /\ Approves(c) = {}
            ELSE /\ trace[c][j].params[Len(trace[c][j].params)] = AmtParam(amount[c])
                 /\ Cardinality(AmountParams(trace[c][j])) = 1
                 /\ args[c].noApprove # "true" =>
                       \E r \in Reads(c) : r < j /\ trace[c][r].status = "resolved"

\* a native supply has sent its mint
C4_Witness ==
    \E c \in Calls :
        /\ args[c].op = "supply" /\ args[c].asset = BNB
        /\ Mains(c) # {}

-----------------------------------------------------------------------------
(* C5 *)

\* C5: repayBorrow with a falsy borrower sends 'repayBorrow' without a
\* borrower argument; with a valid address it sends 'repayBorrowBehalf' with
\* the borrower first; with any other borrower it sends and reads nothing.
C5_BorrowerSelectsMethod ==
    \A c \in Calls : args[c].op = "repayBorrow" =>
        CASE args[c].borrower \in {"null", ""} ->
                \A j \in Mains(c) :
                    /\ trace[c][j].method = "repayBorrow"
                    /\ \A k \in DOMAIN trace[c][j].params : trace[c][j].params[k].t # "addr"
          [] args[c].borrower = "0xBorrower" ->
                \A j \in Mains(c) :
                    /\ trace[c][j].method = "repayBorrowBehalf"
                    /\ trace[c][j].params[1] = AddrParam(<<"0xBorrower">>)
          [] OTHER -> trace[c] = << >>

\* a repayBorrow for another borrower has sent its main transaction
C5_Witness ==
    \E c \in Calls :
        /\ args[c].op = "repayBorrow" /\ args[c].borrower = "0xBorrower"
        /\ Mains(c) # {}

-----------------------------------------------------------------------------
(* C6 *)

\* the symbol is none the operation supports
UnsupportedAsset(a) ==
    CASE a.op \in {"supply", "borrow", "repayBorrow"} -> a.asset \notin underlyings
      [] a.op = "redeem" -> a.asset \notin underlyings \cup cTokens
      [] a.op = "getPrice" ->
            \/ a.asset \notin underlyings \cup cTokens \cup opfAssets
            \/ a.inAsset \notin underlyings \cup cTokens \cup opfAssets
      [] OTHER -> FALSE

\* the amount is of a wrong type, or is not a number
BadAmount(a) ==
    /\ a.op \in {"supply", "redeem", "borrow", "repayBorrow"}
    /\ \/ a.amount.type = "other"
       \/ a.amount.type = "number" /\ a.amount.form = "NaN"
       \/ a.amount.type = "string" /\ a.amount.form = "junk"

\* the borrower is a non-empty value that is not an address
BadBorrower(a) ==
    a.op = "repayBorrow" /\ a.borrower \notin {"null", "", "0xBorrower"}

ArgumentError(a) == UnsupportedAsset(a) \/ BadAmount(a) \/ BadBorrower(a)

\* C6: a call of supply, redeem, borrow, repayBorrow or getPrice with an
\* unsupported asset symbol, an amount of a wrong type or that is not a
\* number, or a non-empty borrower that is not an address, never issues a
\* read or a send, and ends rejected.
C6_ArgumentErrorsAreLocal ==
    \A c \in Calls : ArgumentError(args[c]) =>
        /\ trace[c] = << >>
        /\ pc[c] = "done" => result[c].state = "rejected"

\* a supply of a supported asset with NaN as amount has failed, on the
\* conversion to BigNumber, once the network was known
C6_Witness ==
    \E c \in Calls :
        /\ args[c].op = "supply" /\ args[c].asset = DAI
        /\ args[c].amount = NaN
        /\ pc[c] = "done"
        /\ result[c] = Rejected("BigNumber", "none")

-----------------------------------------------------------------------------
(* C7 *)

\* C7: redeem given a derivative symbol sends 'redeem', given an underlying
\* symbol sends 'redeemUnderlying'; either way to the fToken contract of the
\* market, with the amount as the one argument.
C7_RedeemMethod ==
    \A c \in Calls : args[c].op = "redeem" =>
        \A j \in DOMAIN trace[c] :
            /\ trace[c][j].kind = "trx"
            /\ trace[c][j].params = <<AmtParam(amount[c])>>
            /\ \/ /\ args[c].asset \in cTokens
                  /\ trace[c][j].method = "redeem"
                  /\ trace[c][j].to = <<network.name>> \o args[c].asset
               \/ /\ args[c].asset \in underlyings
                  /\ trace[c][j].method = "redeemUnderlying"
                  /\ trace[c][j].to = <<network.name, "f">> \o args[c].asset

\* a redeem of fDAI has been sent
C7_Witness ==
    \E c \in Calls :
        /\ args[c].op = "redeem" /\ args[c].asset = <<"f", "DAI">>
        /\ Mains(c) # {}

-----------------------------------------------------------------------------
(* C8 *)

\* C8: borrow reads no allowance and sends no approve: what it does on the
\* chain is one 'borrow' send carrying the normalized amount.
C8_BorrowNoGate ==
    \A c \in Calls : args[c].op = "borrow" =>
        /\ Reads(c) = {} /\ Approves(c) = {}
        /\ Len(trace[c]) <= 1
        /\ \A j \in DOMAIN trace[c] :
              /\ trace[c][j].method = "borrow"
              /\ trace[c][j].params = <<AmtParam(amount[c])>>
        /\ result[c].state = "resolved" => Len(trace[c]) = 1

\* a borrow has resolved
C8_Witness ==
    \E c \in Calls :
        /\ args[c].op = "borrow"
        /\ result[c].state = "resolved"
        /\ Len(trace[c]) = 1

-----------------------------------------------------------------------------
(* C9 *)

ChainFailure(c) == \E i \in DOMAIN trace[c] : trace[c][i].status = "failed"

\* C9 as stated: a call during which eth.read or eth.trx has reported a
\* failure ends rejected, with an error carrying the prefix of its operation.
C9_ChainFailurePrefixed ==
    \A c \in Calls : (pc[c] = "done" /\ ChainFailure(c)) =>
        /\ result[c].state = "rejected"
        /\ result[c].prefix = args[c].op

-----------------------------------------------------------------------------
(* C10 *)

IntegerInput(a) ==
    \/ a.type = "number" /\ a.form = "finite" /\ a.e >= 0
    \/ a.type = "string" /\ a.form = "int"
    \/ a.type = "BigNumber"

\* C10 as stated: with mantissa: true an integer-valued string, number or
\* BigNumber amount is accepted by the normalization of supply, redeem,
\* borrow, repayBorrow, mintFAI and repayFAI, and every amount these hand to
\* the chain (approve amount, amount argument, native value) is that integer.
C10_MantissaIdentity ==
    \A c \in Calls :
        ( /\ args[c].op \in AmountOps
          /\ args[c].mantissa
          /\ IntegerInput(args[c].amount) ) =>
        /\ result[c].by # "BigNumber"
        /\ \A j \in DOMAIN trace[c] :
              /\ \A k \in AmountParams(trace[c][j]) :
                    trace[c][j].params[k].v = ValueOf(args[c].amount)
              /\ (IsGatedOp(c) /\ trace[c][j].kind = "trx" /\ args[c].asset = BNB) =>
                    trace[c][j].value = ValueOf(args[c].amount)

-----------------------------------------------------------------------------
(* C11 *)

\* a finite, non-negative amount given as a number or as a numeric string
NonNegativeFinite(a) ==
    \/ a.type = "number" /\ a.form = "finite" /\ a.m >= 0
    \/ a.type = "string" /\ a.form \in {"int", "dec"} /\ a.m >= 0

\* decimals the operation of call c scales by: mintFAI and repayFAI use 18
ScaleOf(c) ==
    IF args[c].op \in {"mintFAI", "repayFAI"} THEN 18 ELSE DecimalsOf(args[c].asset)

\* C11 as stated: with mantissa false a finite non-negative amount x is never
\* rejected by the normalization of supply, redeem, borrow, repayBorrow,
\* mintFAI and repayFAI, and every amount handed to the chain is x * 10^d.
C11_HumanScaleConverted ==
    \A c \in Calls :
        ( /\ args[c].op \in AmountOps
          /\ ~args[c].mantissa
          /\ NonNegativeFinite(args[c].amount) ) =>
        /\ result[c].by # "BigNumber"
        /\ \A j \in DOMAIN trace[c] : \A k \in AmountParams(trace[c][j]) :
              trace[c][j].params[k].v =
                  Canon(args[c].amount.m, args[c].amount.e + ScaleOf(c))

-----------------------------------------------------------------------------
(* C12 *)

NegativeAmount(a) == a.type \in {"number", "string", "BigNumber"} /\ a.m < 0

\* C12 as stated: a call of supply, redeem, borrow, repayBorrow, mintFAI or
\* repayFAI with a negative amount issues no read and no send, and ends
\* rejected.
C12_NegativeRejected ==
    \A c \in Calls :
        (args[c].op \in AmountOps /\ NegativeAmount(args[c].amount)) =>
            /\ trace[c] = << >>
            /\ pc[c] = "done" => result[c].state = "rejected"

-----------------------------------------------------------------------------
(* C13 *)

\* a getPrice call that has resolved with a number
Priced(c) == args[c].op = "getPrice" /\ result[c].by = "price"

\* the aligned price of asset over the price of inAsset, as call c read them
RatioOf(c) ==
    FloatDiv(ToFloat(getPrice_align(trace[c][2].ret, DecimalsOf(args[c].asset),
                                    DecimalsOf(args[c].inAsset))),
             ToFloat(trace[c][3].ret))

\* the exchange rate factor of a derivative symbol on the chain
FactorOf(sym) ==
    fTokenExchangeRate(chain.rate[sym], DecimalsOf(Tail(sym)))

\* C13 as stated: getPrice returns R when neither symbol is a derivative,
\* R * Ea when only asset is, R / Ein when only inAsset is, and R * Ea / Ein
\* when both are.
C13_FourCases ==
    \A c \in Calls : Priced(c) =>
        LET isF == assetIsFToken(args[c].asset)
            inIsF == assetIsFToken(args[c].inAsset)
            R == RatioOf(c)
        IN  result[c].value =
              IF ~isF /\ ~inIsF THEN R
              ELSE IF isF /\ ~inIsF THEN FloatMul(R, FactorOf(args[c].asset))
              ELSE IF ~isF /\ inIsF THEN FloatDiv(R, FactorOf(args[c].inAsset))
              ELSE FloatDiv(FloatMul(R, FactorOf(args[c].asset)),
                            FactorOf(args[c].inAsset))

-----------------------------------------------------------------------------
(* C14 *)

\* C14 as stated: getPrice of a derivative symbol in its own underlying
\* returns that derivative's exchange rate factor.
C14_DerivativeInUnderlying ==
    \A c \in Calls :
        (Priced(c) /\ args[c].asset = <<"f">> \o args[c].inAsset) =>
            result[c].value = FactorOf(args[c].asset)

-----------------------------------------------------------------------------
(* C15 *)

\* C15 as stated: getPrice(a, a) returns 1.
C15_SelfPriceIsOne ==
    \A c \in Calls :
        (Priced(c) /\ args[c].asset = args[c].inAsset) =>
            result[c].value = Canon(1, 0)

-----------------------------------------------------------------------------
(* C16 *)

\* 1 up to the rounding of the dozen operations of two calls: within ten
\* units of the last digit kept, 10^(2 - FloatDigits), of 1
NearOne(v) ==
    /\ v # NotANumber
    /\ ~ValLt(v, Canon(Pow10(FloatDigits - 2) - 1, 2 - FloatDigits))
    /\ ~ValLt(Canon(Pow10(FloatDigits - 2) + 1, 2 - FloatDigits), v)

\* C16 as stated: getPrice(A, B) * getPrice(B, A) is 1 up to rounding when
\* the two calls read the same chain state.
C16_InverseProduct ==
    ( /\ Priced(1) /\ Priced(2)
      /\ args[2].asset = args[1].inAsset
      /\ args[2].inAsset = args[1].asset ) =>
        NearOne(FloatMul(result[1].value, result[2].value))

-----------------------------------------------------------------------------
(* C17 *)

\* the fToken address of the market of a symbol
MarketAddressOf(sym) ==
    <<network.name>> \o (IF assetIsFToken(sym) THEN sym ELSE <<"f">> \o sym)

\* C17 as stated: the first read of getPrice is 'oracle' on the Comptroller;
\* the reads that follow it are getUnderlyingPrice of the oracle, first for
\* asset, then for inAsset, each keyed by the address of an existing market,
\* that of the symbol's underlying.
C17_PriceReadsKeyedByMarket ==
    \A c \in Calls : args[c].op = "getPrice" =>
        /\ Len(trace[c]) >= 1 =>
              /\ trace[c][1].method = "oracle"
              /\ trace[c][1].to = <<network.name, "Comptroller">>
        /\ \A i \in {2, 3} \cap DOMAIN trace[c] :
              LET sym == IF i = 2 THEN args[c].asset ELSE args[c].inAsset
              IN  /\ trace[c][i].method = "getUnderlyingPrice"
                  /\ trace[c][i].to = priceOracleAddress
                  /\ trace[c][i].params = <<AddrParam(MarketAddressOf(sym))>>
                  /\ IsMarket(MarketAddressOf(sym))

-----------------------------------------------------------------------------
(* C18 *)

IsDelegation(c) == args[c].op = "createDelegateSignature"

\* C18 as stated: createDelegateSignature given a delegatee that is not an
\* address reads no nonce and hands nothing to the signer, and ends rejected.
C18_DelegateeValidatedFirst ==
    \A c \in Calls : (IsDelegation(c) /\ ~IsAddress(args[c].delegatee)) =>
        /\ trace[c] = << >>
        /\ pc[c] = "done" => result[c].state = "rejected"

-----------------------------------------------------------------------------
(* C19 *)

\* C19: what createDelegateSignature does is one read of nonces(signer) on
\* the token contract and then, once that read has resolved, one request to
\* the signer for a message made of the given delegatee, the nonce the read
\* returned and the given expiry; it sends no transaction, and a call that
\* resolves has obtained the signature.
C19_SignsNonceJustRead ==
    \A c \in Calls : IsDelegation(c) =>
        /\ Len(trace[c]) <= 2
        /\ \A i \in DOMAIN trace[c] : trace[c][i].kind # "trx"
        /\ Len(trace[c]) >= 1 =>
              /\ trace[c][1].kind = "read" /\ trace[c][1].method = "nonces"
              /\ trace[c][1].to = <<network.name, "COMP">>
              /\ trace[c][1].params = <<AddrParam(UserAddress)>>
        /\ Len(trace[c]) = 2 =>
              /\ trace[c][1].status = "resolved"
              /\ trace[c][2].kind = "sign"
              /\ trace[c][2].params = <<AddrParam(<<args[c].delegatee>>),
                                        AmtParam(trace[c][1].ret),
                                        AmtParam(args[c].expiry)>>
        /\ result[c].state = "resolved" => Signed(c) = {2}

\* a call has returned a signature over a nonce the chain had incremented
C19_Witness ==
    \E c \in Calls :
        /\ IsDelegation(c)
        /\ result[c].state = "resolved"
        /\ Signed(c) # {}
        /\ trace[c][1].ret.m = 1

-----------------------------------------------------------------------------
(* C20 *)

\* C20 as stated: no two calls have obtained a signature over the same
\* nonce and expiry.
C20_OncePerNonceExpiry ==
    \A c1, c2 \in Calls : c1 # c2 =>
        \A i \in Signed(c1) : \A j \in Signed(c2) :
            ~ ( /\ trace[c1][i].params[2] = trace[c2][j].params[2]
                /\ trace[c1][i].params[3] = trace[c2][j].params[3] )

\* C20 as amended: every message handed to the signer carries the nonce the
\* call's own read returned, which is never above the nonce the chain stores;
\* calls are not kept from signing the same nonce and expiry.
C20_SignedNonceIsStoredNonce ==
    \A c \in Calls : IsDelegation(c) =>
        \A i \in DOMAIN trace[c] : trace[c][i].kind = "sign" =>
            /\ i > 1
            /\ trace[c][i].params[2].v = trace[c][i - 1].ret
            /\ trace[c][i].params[2].v.m <= chain.nonce

\* two calls have obtained signatures over the same nonce and expiry
C20_Witness ==
    \E i \in Signed(1) : \E j \in Signed(2) :
        /\ trace[1][i].params[2] = trace[2][j].params[2]
        /\ trace[1][i].params[3] = trace[2][j].params[3]

-----------------------------------------------------------------------------
(* C21 *)

IsHexString(str) == \A i \in 1..Len(str) : str[i] \in HexChars

HasPrefix(str) == Len(str) >= 2 /\ str[1] = "0" /\ str[2] \in {"x", "X"}

StripPrefix(str) == IF HasPrefix(str) THEN SubSeq(str, 3, Len(str)) ELSE str

\* a 20-byte hex address: 40 hex characters after an optional 0x prefix
IsAddressString(str) ==
    /\ Len(StripPrefix(str)) = AddressChars
    /\ IsHexString(StripPrefix(str))

\* C21: toChecksumAddress returns exactly for the inputs whose body, after an
\* optional 0x prefix is stripped, is 40 hex characters, and throws for every
\* other input (shorter, longer, with a non-hex character); a valid address
\* is accepted with and without the prefix.
C21_AcceptsExactlyAddresses ==
    checksum.first.state # "none" =>
        (checksum.first.state = "returned" <=> IsAddressString(checksum.input))

-----------------------------------------------------------------------------
(* C22 *)

\* the digest keccak256 returned for the lower-cased body of the input
DigestOfInput ==
    {h[2] : h \in {g \in checksum.hashed :
                      g[1] = toChecksumAddress_expanded(checksum.input)}}

\* C22: in the output for a prefixed valid address every hex letter is
\* upper-case when the nibble of the digest at its position is at least 8
\* and lower-case otherwise.
C22_CaseFollowsDigest ==
    (checksum.first.state = "returned" /\ HasPrefix(checksum.input)
        /\ IsAddressString(checksum.input)) =>
        \A d \in DigestOfInput : \A i \in 3..Len(checksum.first.ret) :
            LET ch == checksum.first.ret[i]
            IN  ch \in LowerHexLetters \cup UpperHexLetters =>
                    (ch \in UpperHexLetters <=> NibbleOf(d, i - 2) >= 8)

-----------------------------------------------------------------------------
(* C23 *)

\* C23: when toChecksumAddress returns for an input, it returns for its own
\* result as well, and returns that result unchanged.
C23_Idempotent ==
    checksum.second.state # "none" => checksum.second = checksum.first

-----------------------------------------------------------------------------
(* C24 *)

\* the methods that take an address and validate it with toChecksumAddress
AddressOps == {"delegate", "delegateBySig"} \cup AddressQueries

\* C24: delegate, delegateBySig and the FAI queries that take an address,
\* given a string that is not a 20-byte hex address, fail and issue no read
\* and no send.
C24_AddressValidatedFirst ==
    \A c \in Calls :
        ( /\ args[c].op \in AddressOps
          /\ args[c].address # NotAString
          /\ ~IsAddressString(args[c].address) ) =>
            /\ trace[c] = << >>
            /\ pc[c] = "done" => result[c].state = "rejected"

-----------------------------------------------------------------------------
(* C25 *)

\* C25: no method reads the instance's network before the network detection
\* has set it: no call fails on the unset network, and every read, send or
\* signature request is issued with the network known.
C25_HeldUpUntilNetworkKnown ==
    \A c \in Calls :
        /\ result[c].by # "TypeError"
        /\ trace[c] # << >> => network.name # "unset"

-----------------------------------------------------------------------------
(* C26 *)

\* the decimals of a symbol on a network: 18 for the two stablecoins on the
\* designated network, the default of the table otherwise
DecimalsOn(net, sym) ==
    IF (net.id = 56 \/ net.name = "mainnet") /\ sym \in {<<"USDC">>, <<"USDT">>}
    THEN 18
    ELSE InitialDecimals(sym)

\* C26: a call of an instance normalizes a human-scale amount with the
\* decimals of its own network, 18 for the two stablecoins only when the
\* instance is connected to the designated network, whatever other instance
\* has been constructed and whenever its network detection completes.
C26_DecimalsPerNetwork ==
    \A c \in Calls :
        (args[c].op \in {"supply", "borrow"} /\ ~args[c].mantissa /\ trace[c] # << >>) =>
            amount[c] = Normalize(args[c].amount, FALSE, DecimalsOn(network, args[c].asset))

-----------------------------------------------------------------------------
(* C27 *)

\* C27: the gate of a call is not serialized with the other call: when its
\* allowance read settles, the value it gets is the allowance the chain
\* stores at that moment, whatever approve the other call has in flight, and
\* the call sends its approve exactly when that value is below its amount.
C27_GateNotSerialized ==
    [][\A c \in Calls :
          (pc[c] = "allowance" /\ pc'[c] \in {"approve", "main"}) =>
              /\ trace'[c][Len(trace[c])].ret = allowance[args[c].asset]
              /\ pc'[c] = "approve" <=> ValLt(allowance[args[c].asset], amount[c])]_vars

\* both calls have read an allowance below their amount and both have sent
\* an approve, the second while the approve of the first was not included
C27_Witness ==
    /\ args[1].asset = args[2].asset
    /\ \A c \in Calls :
          /\ IsGatedOp(c)
          /\ \E i \in Reads(c) : /\ trace[c][i].status = "resolved"
                                 /\ ValLt(trace[c][i].ret, amount[c])
          /\ \E j \in Approves(c) : trace[c][j].status \in {"issued", "pending"}

-----------------------------------------------------------------------------
(* C28 *)

OrchestratorOps == {"supply", "redeem", "borrow", "repayBorrow"}

Failed(c) == {i \in DOMAIN trace[c] : trace[c][i].status = "failed"}

\* C28: a call of supply, redeem, borrow or repayBorrow issues at most one
\* approve and at most one main send; a read or send that failed is the last
\* thing the call has issued, and the call has ended with it.
C28_NoRetry ==
    \A c \in Calls : args[c].op \in OrchestratorOps =>
        /\ Cardinality(Approves(c)) <= 1
        /\ Cardinality(Mains(c)) <= 1
        /\ \A i \in Failed(c) : /\ i = Len(trace[c])
                                /\ pc[c] = "done"
                                /\ result[c].state = "rejected"

\* the main send has failed after an approve that the chain has included:
\* the allowance is the approved amount
C28_Witness ==
    \E c \in Calls :
        /\ IsGatedOp(c)
        /\ \E i \in Approves(c) : trace[c][i].status = "included"
        /\ \E j \in Mains(c) : j \in Failed(c)
        /\ allowance[args[c].asset] = amount[c]

-----------------------------------------------------------------------------
(* C29 *)

\* the gate of call c was skipped, or its read has returned a sufficient
\* allowance, or its approve send has resolved
GatePassed(c) ==
    \/ /\ Reads(c) = {}
       /\ Approves(c) = {}
       /\ (args[c].noApprove = "true" \/ <<"f">> \o args[c].asset = fBNB)
    \/ /\ \E i \in Reads(c) : /\ trace[c][i].status = "resolved"
                              /\ ~ValLt(trace[c][i].ret, amount[c])
       /\ Approves(c) = {}
    \/ /\ \E i \in Reads(c) : trace[c][i].status = "resolved"
       /\ \E j \in Approves(c) : trace[c][j].status \in {"pending", "included", "reverted"}

\* C29: in supply and repayBorrow, when the allowance read or the approve
\* send fails the call ends rejected and no main transaction is sent; a main
\* transaction is sent only after the gate was passed or skipped.
C29_FailedGateStopsCall ==
    \A c \in Calls : IsGatedOp(c) =>
        /\ (\E i \in Reads(c) \cup Approves(c) : i \in Failed(c)) =>
              /\ pc[c] = "done"
              /\ result[c].state = "rejected"
              /\ Mains(c) = {}
        /\ Mains(c) # {} => GatePassed(c)

\* the approve send of a call has failed
C29_Witness ==
    \E c \in Calls :
        /\ IsGatedOp(c)
        /\ \E j \in Approves(c) : j \in Failed(c)
        /\ pc[c] = "done"

-----------------------------------------------------------------------------
(* C30 *)

\* C30: no step of a running call changes the options object the caller
\* passed, and a supply of a token, made with an options object in which the
\* caller set no value, sends its mint without a native value, also when the
\* object served a supply of the native asset before.
C30_OptionsUnchanged ==
    /\ [][(\E c \in Calls : pc[c] # "idle" /\ pc'[c] # pc[c]) => options' = options]_vars
    /\ [](\A c \in Calls :
            (args[c].op = "supply" /\ <<"f">> \o args[c].asset # fBNB) =>
                \A j \in Mains(c) : trace[c][j].value = Absent)

====
